---- MODULE Spec2Model ----
(***************************************************************************)
(* Model of citation_manager.py: the record store (CitationManager), the   *)
(* verification engine (verify_url / verify_citation /                     *)
(* verify_all_citations), the deduplication engine                         *)
(* (deduplicate_citations / _citation_completeness), the bibliography      *)
(* codec (_generate_basic_bibtex / create_citation_from_bibtex) and the    *)
(* output of the store (generate_bibtex / save_to_ledger /                 *)
(* get_verification_report), the ledger (to_dict / from_dict /             *)
(* load_from_ledger, with the JSON text of every scalar), and the bulk     *)
(* load of main.py (ReviewOrchestrator._load_existing_bibliography).       *)
(*                                                                         *)
(* Python str values are tuples of one-character strings, so that lower(), *)
(* strip() and concatenation are computed character by character.          *)
(***************************************************************************)
EXTENDS Integers, Sequences, FiniteSets, TLC

VARIABLES
    max_retries,  \* CitationManager.max_retries (set once by __init__)
    citations,    \* CitationManager.citations: dict key -> Citation
    order,        \* iteration (insertion) order of the keys of the dict
    pc,           \* position of the single thread of control
    va,           \* frame of verify_all_citations
    vc,           \* frame of verify_citation
    vu,           \* frame of verify_url
    last          \* the last completed call on the manager and its result

vars == <<max_retries, citations, order, pc, va, vc, vu, last>>

----------------------------------------------------------------------------
(* Bounds of the model *)

MaxRetriesBound == 3   \* configured max_verification_retries ranges over 0..MaxRetriesBound
MaxRecords == 2        \* largest number of records in the store of the verification runs
MaxDupRecords == 3     \* largest number of records in the store of the deduplication runs
MaxAuthors == 2        \* longest author list of the records of the codec runs
MaxBibRecords == 2     \* largest number of records in the store of the output runs
MaxBlocks == 3         \* largest number of entry blocks in a file of the load runs
MaxStoreRecords == 2   \* largest number of records in the store of the ledger runs
MaxVerifyRetries == 2  \* max_verification_retries ranges over 0..MaxVerifyRetries in the runs over a filled store
MaxVerifyRecords == 2  \* largest number of records in the store of the runs over a filled store

----------------------------------------------------------------------------
(* Python values *)

None == <<"None">>     \* the None of an Optional[str] field: no str is equal to it
NoneInt == -1          \* the None of an Optional[int] field: no status code is negative

\* bool(x) of an Optional[str] / str value: None and "" are falsy
Truthy(s) == s # None /\ s # <<>>

\* str.isspace() of one character
IsSpace(ch) == ch \in {" ", "\t", "\n"}

\* str.lower() of one character
LowerChar(ch) ==
    CASE ch = "A" -> "a"
      [] ch = "B" -> "b"
      [] ch = "C" -> "c"
      [] OTHER -> ch

\* str.lower()
Lower(s) == [i \in 1..Len(s) |-> LowerChar(s[i])]

\* str.lstrip()
RECURSIVE LStrip(_)
LStrip(s) == IF s # <<>> /\ IsSpace(Head(s)) THEN LStrip(Tail(s)) ELSE s

\* str.rstrip()
RECURSIVE RStrip(_)
RStrip(s) ==
    IF s # <<>> /\ IsSpace(s[Len(s)]) THEN RStrip(SubSeq(s, 1, Len(s) - 1)) ELSE s

\* str.strip()
Strip(s) == RStrip(LStrip(s))

----------------------------------------------------------------------------
(* class Citation *)

\* the dataclass constructor with the defaults of the optional fields
Citation(citekey, title, authors, year, journal, ads_bibcode, doi, arxiv_id, ads_url, publisher_url, bibtex_entry) ==
    [citekey |-> citekey, title |-> title, authors |-> authors, year |-> year,
     journal |-> journal, ads_bibcode |-> ads_bibcode, doi |-> doi,
     arxiv_id |-> arxiv_id, ads_url |-> ads_url, publisher_url |-> publisher_url,
     last_verified |-> None, http_status_ads |-> NoneInt,
     http_status_doi |-> NoneInt, crossref_match |-> FALSE, ads_match |-> FALSE,
     notes |-> <<>>, bibtex_entry |-> bibtex_entry]

----------------------------------------------------------------------------
(* The dict self.citations *)

EmptyDict == << >>

\* self.citations[key] = value: a new key goes last, an existing key keeps its place
DictSet(d, ord, key, value) ==
    [citations |-> [k \in (DOMAIN d) \cup {key} |-> IF k = key THEN value ELSE d[k]],
     order |-> IF key \in DOMAIN d THEN ord ELSE Append(ord, key)]

\* del self.citations[key]
DictDel(d, ord, key) ==
    [citations |-> [k \in (DOMAIN d) \ {key} |-> d[k]],
     order |-> SelectSeq(ord, LAMBDA k : k # key)]

----------------------------------------------------------------------------
(* Deduplication engine *)

\* a completeness score that gives the bibcode the weight of the journal
CompletenessBibcodeWeightOne(citation) ==
      (IF Truthy(citation.ads_bibcode) THEN 1 ELSE 0)
    + (IF Truthy(citation.doi) THEN 2 ELSE 0)
    + (IF Truthy(citation.arxiv_id) THEN 1 ELSE 0)
    + (IF Truthy(citation.journal) THEN 1 ELSE 0)
    + (IF Truthy(citation.bibtex_entry) THEN 2 ELSE 0)

\* CitationManager._citation_completeness
_citation_completeness(citation) ==
      (IF Truthy(citation.ads_bibcode) THEN 3 ELSE 0)
    + (IF Truthy(citation.doi) THEN 2 ELSE 0)
    + (IF Truthy(citation.arxiv_id) THEN 1 ELSE 0)
    + (IF Truthy(citation.journal) THEN 1 ELSE 0)
    + (IF Truthy(citation.bibtex_entry) THEN 2 ELSE 0)

\* a key made of the title as it is written
EqualityKeyExactTitle(citation) == <<citation.title, citation.year>>

\* key = (citation.title.lower().strip(), citation.year)
EqualityKey(citation) == <<Strip(Lower(citation.title)), citation.year>>

\* a test that lets the new arrival win a tie
ReplacesExistingOnTie(citation, existing) ==
    _citation_completeness(citation) >= _citation_completeness(existing)

\* the test that lets the new arrival replace the record kept so far
ReplacesExisting(citation, existing) ==
    _citation_completeness(citation) > _citation_completeness(existing)

\* an iteration that reports the losing new arrival without deleting it
DedupIterationKeepsLoser(st, citekey, citation) ==
    LET key == EqualityKey(citation) IN
    IF key \in DOMAIN st.seen
    THEN LET existing == st.citations[st.seen[key]] IN
         IF ReplacesExisting(citation, existing)
         THEN LET del == DictDel(st.citations, st.order, st.seen[key]) IN
              [citations |-> del.citations, order |-> del.order,
               seen |-> [st.seen EXCEPT ![key] = citekey],
               duplicates |-> Append(st.duplicates, st.seen[key]),
               raised |-> FALSE]
         ELSE [st EXCEPT !.duplicates = Append(st.duplicates, citekey)]
    ELSE [st EXCEPT !.seen = [k \in (DOMAIN st.seen) \cup {key} |->
                                 IF k = key THEN citekey ELSE st.seen[k]]]

\* an iteration that reports the new arrival when it deletes the record kept
\* so far
DedupIterationReportsArrival(st, citekey, citation) ==
    LET key == EqualityKey(citation) IN
    IF key \in DOMAIN st.seen
    THEN LET existing == st.citations[st.seen[key]] IN
         IF ReplacesExisting(citation, existing)
         THEN LET del == DictDel(st.citations, st.order, st.seen[key]) IN
              [citations |-> del.citations, order |-> del.order,
               seen |-> [st.seen EXCEPT ![key] = citekey],
               duplicates |-> Append(st.duplicates, citekey),
               raised |-> FALSE]
         ELSE LET del == DictDel(st.citations, st.order, citekey) IN
              [citations |-> del.citations, order |-> del.order,
               seen |-> st.seen,
               duplicates |-> Append(st.duplicates, citekey),
               raised |-> FALSE]
    ELSE [st EXCEPT !.seen = [k \in (DOMAIN st.seen) \cup {key} |->
                                 IF k = key THEN citekey ELSE st.seen[k]]]

\* one iteration of the loop of deduplicate_citations; st holds the dict, the
\* locals seen and duplicates, and whether a KeyError has left the loop (a
\* subscript or a del with a citekey that is not in the dict)
DedupIteration(st, citekey, citation) ==
    LET key == EqualityKey(citation) IN
    IF key \in DOMAIN st.seen
    THEN IF st.seen[key] \notin DOMAIN st.citations
         THEN [st EXCEPT !.raised = TRUE]
         ELSE
         LET existing == st.citations[st.seen[key]] IN
         IF ReplacesExisting(citation, existing)
         THEN LET del == DictDel(st.citations, st.order, st.seen[key]) IN
              [citations |-> del.citations, order |-> del.order,
               seen |-> [st.seen EXCEPT ![key] = citekey],
               duplicates |-> Append(st.duplicates, st.seen[key]),
               raised |-> FALSE]
         ELSE IF citekey \notin DOMAIN st.citations
              THEN [st EXCEPT !.raised = TRUE]
              ELSE
              LET del == DictDel(st.citations, st.order, citekey) IN
              [citations |-> del.citations, order |-> del.order,
               seen |-> st.seen,
               duplicates |-> Append(st.duplicates, citekey),
               raised |-> FALSE]
    ELSE [st EXCEPT !.seen = [k \in (DOMAIN st.seen) \cup {key} |->
                                 IF k = key THEN citekey ELSE st.seen[k]]]

\* the loop over list(self.citations.items()), from item i on
RECURSIVE DedupLoop(_, _, _)
DedupLoop(items, i, st) ==
    IF i > Len(items) \/ st.raised THEN st
    ELSE DedupLoop(items, i + 1, DedupIteration(st, items[i][1], items[i][2]))

\* CitationManager.deduplicate_citations on the dict d with key order ord
deduplicate_citations(d, ord) ==
    LET items == [i \in 1..Len(ord) |-> <<ord[i], d[ord[i]]>>]
    IN  DedupLoop(items, 1, [citations |-> d, order |-> ord,
                             seen |-> << >>, duplicates |-> << >>,
                             raised |-> FALSE])

----------------------------------------------------------------------------
(* Inputs of the runs *)

K1 == <<"k", "1">>
K2 == <<"k", "2">>
K3 == <<"k", "3">>
K4 == <<"k", "4">>
K5 == <<"k", "5">>
KeyPool == <<K1, K2, K3, K4, K5>>

TheAuthors == << <<"A">>, <<"B">> >>

\* (title, year) pairs: the first two differ by case and surrounding whitespace
\* only, the third has another title, the fourth the title of the first and
\* another year
DupTitleYears ==
    { <<<<"A", "b">>, 1977>>, <<<<" ", "a", "B", " ">>, 1977>>, <<<<"c">>, 1977>>,
      <<<<"A", "b">>, 1978>> }

\* which of the fields counted by the completeness score are populated
Profile(journal, ads_bibcode, doi, arxiv_id, bibtex_entry) ==
    [journal |-> journal, ads_bibcode |-> ads_bibcode, doi |-> doi,
     arxiv_id |-> arxiv_id, bibtex_entry |-> bibtex_entry]

J1 == <<"J">>
B1 == <<"1", "9", "7", "7", "A">>
D1 == <<"1", "0", ".", "1">>
X1 == <<"2", "1", "0", "1">>
T1 == <<"@", "t">>

DupProfiles ==
    { Profile(J1, None, <<>>, X1, <<>>),         \* score 1 + 1
      Profile(None, None, None, None, T1),       \* score 2
      Profile(None, B1, None, None, <<>>),       \* score 3
      Profile(None, B1, D1, None, <<>>) }        \* score 3 + 2

\* the records a caller of the deduplication runs may build under citekey k
DupInputs(k) ==
    { Citation(k, ty[1], TheAuthors, ty[2], p.journal, p.ads_bibcode, p.doi,
               p.arxiv_id, None, None, p.bibtex_entry) :
        ty \in DupTitleYears, p \in DupProfiles }

\* The citekey a caller gives a new record when the store holds the keys of d
\* and may grow to n records: the first key of the pool that is not in the
\* store (no operation depends on the spelling of a citekey)
NewKeys(d, n) ==
    { KeyPool[i] : i \in { j \in 1..n :
                            /\ KeyPool[j] \notin DOMAIN d
                            /\ \A h \in 1..(j - 1) : KeyPool[h] \in DOMAIN d } }

----------------------------------------------------------------------------
(* Frames of the calls in progress *)

NoVa == [active |-> FALSE, idx |-> 0, results |-> << >>]
NoVc == [active |-> FALSE, done |-> FALSE, caller |-> "nobody"]
NoVu == [active |-> FALSE, done |-> FALSE, outcomes |-> << >>, sleeps |-> 0, ret |-> <<FALSE, 0>>]
NoCall == [op |-> "__init__", ret |-> None]

\* the record of a completed call: its name and its result
Completed(op, ret) == [op |-> op, ret |-> ret]

\* while a call is running there is no completed call to look at, and no result
Running == [op |-> "(running)"]

\* the record of a completed deduplicate_citations: also whether a KeyError
\* left it, the store as it was when the call was made, whether the call
\* completed before it was deduplicate_citations too, and what that one returned
CompletedDedup(ret, d, ord, raised) ==
    [op |-> "deduplicate_citations", ret |-> ret, raised |-> raised,
     before |-> [citations |-> d, order |-> ord],
     again |-> (last.op = "deduplicate_citations"),
     first_ret |-> IF last.op = "deduplicate_citations" THEN last.ret ELSE << >>]

\* the record of a completed verify_citation: also the final frame of the call
CompletedVerify(ret, frame) ==
    [op |-> "verify_citation", ret |-> ret, call |-> frame]

----------------------------------------------------------------------------
(* CitationManager.__init__ *)

Init ==
    /\ max_retries \in 0..MaxRetriesBound
    /\ citations = EmptyDict
    /\ order = << >>
    /\ pc = "idle"
    /\ va = NoVa
    /\ vc = NoVc
    /\ vu = NoVu
    /\ last = NoCall

\* the manager of the deduplication runs: default max_verification_retries
InitDedup ==
    /\ max_retries = 3
    /\ citations = EmptyDict
    /\ order = << >>
    /\ pc = "idle"
    /\ va = NoVa
    /\ vc = NoVc
    /\ vu = NoVu
    /\ last = NoCall

----------------------------------------------------------------------------
(* Store operations *)

\* CitationManager.add_citation
add_citation(citation) ==
    /\ pc = "idle"
    /\ LET set == DictSet(citations, order, citation.citekey, citation) IN
       /\ citations' = set.citations
       /\ order' = set.order
    /\ last' = Completed("add_citation", None)
    /\ UNCHANGED <<max_retries, pc, va, vc, vu>>

\* a caller adds a new record of the deduplication runs; these runs fill the
\* store first and deduplicate it afterwards (deduplicate_citations keeps
\* nothing between calls: seen and duplicates are locals)
AddDupCitation ==
    /\ last.op # "deduplicate_citations"
    /\ \E k \in NewKeys(citations, MaxDupRecords) :
           \E citation \in DupInputs(k) : add_citation(citation)

\* a caller runs CitationManager.deduplicate_citations
DeduplicateCitations ==
    /\ pc = "idle"
    /\ \E out \in {deduplicate_citations(citations, order)} :
       /\ citations' = out.citations
       /\ order' = out.order
       /\ last' = CompletedDedup(out.duplicates, citations, order, out.raised)
    /\ UNCHANGED <<max_retries, pc, va, vc, vu>>

NextDedup == AddDupCitation \/ DeduplicateCitations

SpecDedup == InitDedup /\ [][NextDedup]_vars

----------------------------------------------------------------------------
(* Verification engine: values *)

SuccessStatus == 200

\* the status codes a server answers a HEAD request with (after redirects)
Statuses == {200, 404}

\* what one call of requests.head does: it returns a response with a status
\* code or raises requests.RequestException
Response(status) == [kind |-> "response", status |-> status]
RequestException == [kind |-> "RequestException"]
Outcomes == {Response(s) : s \in Statuses} \cup {RequestException}

\* the readings of datetime.utcnow().isoformat()
Timestamps == { <<"t", "1">> }

DoiPrefix == <<"h", "t", "t", "p", "s", ":", "/", "/", "d", "o", "i", ".", "o", "r", "g", "/">>

\* doi_url = f"https://doi.org/{citation.doi}"
DoiUrl(doi) == DoiPrefix \o doi

\* a loop over range(self.max_retries - 1)
HasNextAttemptOneShort(attempt) == attempt < max_retries - 1

\* for attempt in range(self.max_retries): is there an iteration for this index
HasNextAttempt(attempt) == attempt < max_retries

\* a result with the comparison inverted
ResponseResultInverted(status) == <<status # SuccessStatus, status>>

\* a result that takes any response for a live URL
ResponseResultAnyResponse(status) == <<status >= 200, status>>

\* return (response.status_code == 200, response.status_code)
ResponseResult(status) == <<status = SuccessStatus, status>>

\* an except clause that re-raises on the last attempt
OnRequestExceptionReraise(attempt) ==
    IF attempt = max_retries - 1 THEN "raise" ELSE "sleep"

\* the except clause of verify_url: give up on the last attempt, else back off
OnRequestException(attempt) ==
    IF attempt = max_retries - 1 THEN "return" ELSE "sleep"

\* the result of verify_url when no attempt got a response
NoResponseResult == <<FALSE, 0>>

\* a not-found branch that returns the results dict
NotFoundReportAsResults ==
    [ads_url_valid |-> FALSE, doi_url_valid |-> FALSE, metadata_complete |-> FALSE]

\* return {"error": "Citation not found"}
NotFoundReport == [error |-> "Citation not found"]

\* results = {"ads_url_valid": False, "doi_url_valid": False, "metadata_complete": False}
InitialResults ==
    [ads_url_valid |-> FALSE, doi_url_valid |-> FALSE, metadata_complete |-> FALSE]

\* all([citation.title, citation.authors, citation.year, citation.citekey])
MetadataComplete(citation) ==
    /\ citation.title # <<>>
    /\ citation.authors # <<>>
    /\ citation.year # 0
    /\ citation.citekey # <<>>

\* an update that keeps a status recorded earlier
StoreAdsStatusKeepsEarlier(citation, valid, status) ==
    IF citation.http_status_ads = NoneInt
    THEN [citation EXCEPT !.http_status_ads = status]
    ELSE citation

\* citation.http_status_ads = status
StoreAdsStatus(citation, valid, status) ==
    [citation EXCEPT !.http_status_ads = status]

\* an update that keeps the resolver URL only when it is live
StoreDoiStatusUrlIfValid(citation, valid, status, doi_url) ==
    [citation EXCEPT !.http_status_doi = status,
                     !.publisher_url = IF valid THEN doi_url ELSE @]

\* citation.http_status_doi = status; citation.publisher_url = doi_url
StoreDoiStatus(citation, valid, status, doi_url) ==
    [citation EXCEPT !.http_status_doi = status, !.publisher_url = doi_url]

\* a stamp that also marks the record as matched in ADS
StampVerifiedSetsMatch(citation, now) ==
    [citation EXCEPT !.last_verified = now, !.ads_match = TRUE]

\* a stamp that is set only when a URL was there to check
StampVerifiedIfProbed(citation, now) ==
    IF Truthy(citation.ads_url) \/ Truthy(citation.doi)
    THEN [citation EXCEPT !.last_verified = now]
    ELSE citation

\* citation.last_verified = datetime.utcnow().isoformat()
StampVerified(citation, now) ==
    [citation EXCEPT !.last_verified = now]

----------------------------------------------------------------------------
(* Verification engine: frames *)

\* a frame whose loop index goes on from the sleeps of the call before it
CallVerifyUrlCarriesAttempts(which, url) ==
    [active |-> TRUE, done |-> FALSE, which |-> which, url |-> url,
     attempt |-> vu.sleeps, outcomes |-> << >>, sleeps |-> 0, ret |-> NoResponseResult]

\* the frame of a call of verify_url: attempt is the loop index, outcomes the
\* outcomes of the HEAD attempts made so far, sleeps the time.sleep(1) calls
CallVerifyUrl(which, url) ==
    [active |-> TRUE, done |-> FALSE, which |-> which, url |-> url,
     attempt |-> 0, outcomes |-> << >>, sleeps |-> 0, ret |-> NoResponseResult]

\* the frame of a call of verify_citation that found its record
CallVerifyCitation(citekey, caller) ==
    [active |-> TRUE, done |-> FALSE, found |-> TRUE, key |-> citekey,
     caller |-> caller, results |-> InitialResults, ret |-> InitialResults]

\* the frame of a call of verify_citation that returned the not-found report
NotFoundVerifyCitation(citekey, caller) ==
    [active |-> FALSE, done |-> TRUE, found |-> FALSE, key |-> citekey,
     caller |-> caller, results |-> InitialResults, ret |-> NotFoundReport]

----------------------------------------------------------------------------
(* Verification engine: steps *)

\* verify_citation returns report to its caller: the top level, or the loop of
\* verify_all_citations (results[citekey] = ..., then time.sleep(0.5))
ReturnReport(frame) ==
    IF frame.caller = "verify_all_citations"
    THEN /\ va' = [va EXCEPT !.results =
                      [k \in (DOMAIN va.results) \cup {frame.key} |->
                          IF k = frame.key THEN frame.ret ELSE va.results[k]]]
         /\ vc' = frame
         /\ pc' = "va_sleep"
         /\ UNCHANGED last
    ELSE /\ last' = CompletedVerify(frame.ret, frame)
         /\ vc' = NoVc
         /\ pc' = "idle"
         /\ UNCHANGED va

\* verify_citation, lines 125-133: look the record up
EnterVerifyCitation(citekey, caller) ==
    IF citekey \notin DOMAIN citations
    THEN /\ ReturnReport(NotFoundVerifyCitation(citekey, caller))
         /\ UNCHANGED <<max_retries, citations, order, vu>>
    ELSE /\ vc' = CallVerifyCitation(citekey, caller)
         /\ pc' = "vc_ads"
         /\ last' = Running
         /\ UNCHANGED <<max_retries, citations, order, va, vu>>

\* verify_url returns ret: verify_citation stores the outcome of the probe
ReturnFromVerifyUrl(frame) ==
    LET valid == frame.ret[1]
        status == frame.ret[2]
    IN  /\ vu' = frame
        /\ IF frame.which = "ads"
           THEN /\ vc' = [vc EXCEPT !.results.ads_url_valid = valid]
                /\ citations' = [citations EXCEPT ![vc.key] =
                                    StoreAdsStatus(@, valid, status)]
                /\ pc' = "vc_doi"
           ELSE /\ vc' = [vc EXCEPT !.results.doi_url_valid = valid]
                /\ citations' = [citations EXCEPT ![vc.key] =
                                    StoreDoiStatus(@, valid, status, frame.url)]
                /\ pc' = "vc_end"
        /\ UNCHANGED <<max_retries, order, va, last>>

\* a caller runs CitationManager.verify_citation
VerifyCitation ==
    /\ pc = "idle"
    /\ \E citekey \in {KeyPool[i] : i \in 1..(MaxRecords + 1)} :
           EnterVerifyCitation(citekey, "caller")

\* verify_citation, lines 136-137: if citation.ads_url: verify_url(citation.ads_url)
CheckAdsUrl ==
    /\ pc = "vc_ads"
    /\ IF Truthy(citations[vc.key].ads_url)
       THEN /\ vu' = CallVerifyUrl("ads", citations[vc.key].ads_url)
            /\ pc' = "vu_loop"
       ELSE /\ pc' = "vc_doi"
            /\ UNCHANGED vu
    /\ UNCHANGED <<max_retries, citations, order, va, vc, last>>

\* verify_citation, lines 142-144: if citation.doi: verify_url(doi_url)
CheckDoi ==
    /\ pc = "vc_doi"
    /\ IF Truthy(citations[vc.key].doi)
       THEN /\ vu' = CallVerifyUrl("doi", DoiUrl(citations[vc.key].doi))
            /\ pc' = "vu_loop"
       ELSE /\ pc' = "vc_end"
            /\ UNCHANGED vu
    /\ UNCHANGED <<max_retries, citations, order, va, vc, last>>

\* verify_url, lines 113-119 and 121: the next HEAD attempt, or the end of the loop
HeadAttempt ==
    /\ pc = "vu_loop"
    /\ IF HasNextAttempt(vu.attempt)
       THEN \E outcome \in Outcomes :
              LET made == [vu EXCEPT !.outcomes = Append(@, outcome)] IN
              IF outcome.kind = "response"
              THEN ReturnFromVerifyUrl([made EXCEPT !.active = FALSE, !.done = TRUE,
                                                    !.ret = ResponseResult(outcome.status)])
              ELSE CASE OnRequestException(vu.attempt) = "return" ->
                            ReturnFromVerifyUrl([made EXCEPT !.active = FALSE, !.done = TRUE,
                                                             !.ret = NoResponseResult])
                     [] OnRequestException(vu.attempt) = "sleep" ->
                            /\ vu' = made
                            /\ pc' = "vu_sleep"
                            /\ UNCHANGED <<max_retries, citations, order, va, vc, last>>
                     [] OTHER ->
                            \* the exception leaves verify_url and every caller
                            /\ vu' = made
                            /\ pc' = "raised"
                            /\ UNCHANGED <<max_retries, citations, order, va, vc, last>>
       ELSE ReturnFromVerifyUrl([vu EXCEPT !.active = FALSE, !.done = TRUE,
                                           !.ret = NoResponseResult])

\* verify_url, line 120: time.sleep(1), then the next iteration of the loop
BackoffSleep ==
    /\ pc = "vu_sleep"
    /\ vu' = [vu EXCEPT !.sleeps = @ + 1, !.attempt = @ + 1]
    /\ pc' = "vu_loop"
    /\ UNCHANGED <<max_retries, citations, order, va, vc, last>>

\* verify_citation, lines 150-158: metadata_complete, last_verified, return
FinishVerifyCitation ==
    /\ pc = "vc_end"
    /\ \E now \in Timestamps :
         LET report == [vc.results EXCEPT
                           !.metadata_complete = MetadataComplete(citations[vc.key])]
         IN  /\ citations' = [citations EXCEPT ![vc.key] = StampVerified(@, now)]
             /\ ReturnReport([vc EXCEPT !.active = FALSE, !.done = TRUE,
                                         !.results = report, !.ret = report])
    /\ vu' = NoVu
    /\ UNCHANGED <<max_retries, order>>

\* a caller runs CitationManager.verify_all_citations: results = {}
VerifyAllCitations ==
    /\ pc = "idle"
    /\ va' = [active |-> TRUE, idx |-> 1, results |-> << >>]
    /\ pc' = "va_loop"
    /\ last' = Running
    /\ UNCHANGED <<max_retries, citations, order, vc, vu>>

\* verify_all_citations, lines 163-165 and 167: the next key of the dict, or return
VerifyAllNext ==
    /\ pc = "va_loop"
    /\ IF va.idx <= Len(order)
       THEN EnterVerifyCitation(order[va.idx], "verify_all_citations")
       ELSE /\ va' = NoVa
            /\ vc' = NoVc
            /\ last' = Completed("verify_all_citations", va.results)
            /\ pc' = "idle"
            /\ UNCHANGED <<max_retries, citations, order, vu>>

\* a loop that skips the key after the one it checked
RateLimitSleepSkipsNext ==
    /\ pc = "va_sleep"
    /\ va' = [va EXCEPT !.idx = @ + 2]
    /\ pc' = "va_loop"
    /\ UNCHANGED <<max_retries, citations, order, vc, vu, last>>

\* a loop that stays at the key it checked
RateLimitSleepSameKey ==
    /\ pc = "va_sleep"
    /\ pc' = "va_loop"
    /\ UNCHANGED <<max_retries, citations, order, va, vc, vu, last>>

\* verify_all_citations, line 166: time.sleep(0.5), then the next key
RateLimitSleep ==
    /\ pc = "va_sleep"
    /\ va' = [va EXCEPT !.idx = @ + 1]
    /\ pc' = "va_loop"
    /\ UNCHANGED <<max_retries, citations, order, vc, vu, last>>

\* the records a caller of the verification runs may build under citekey k
U1 == <<"h", "t", "t", "p", ":", "/", "/", "a", "d", "s">>
P1 == <<"h", "t", "t", "p", ":", "/", "/", "p", "u", "b">>

VerifyInputs(k) ==
    { Citation(k, <<"A", "b">>, TheAuthors, 1977, None, None, f[2], None, f[1], f[3], <<>>) :
        f \in { <<None, None, None>>, <<None, D1, None>>, <<U1, D1, P1>> } }

\* a caller adds a record of the verification runs, under a new citekey or
\* under a citekey of the store
AddVerifyCitation ==
    \E k \in NewKeys(citations, MaxRecords) \cup DOMAIN citations :
        \E citation \in VerifyInputs(k) : add_citation(citation)

Next ==
    \/ AddVerifyCitation
    \/ VerifyCitation
    \/ CheckAdsUrl
    \/ CheckDoi
    \/ HeadAttempt
    \/ BackoffSleep
    \/ FinishVerifyCitation
    \/ VerifyAllCitations
    \/ VerifyAllNext
    \/ RateLimitSleep

Spec == Init /\ [][Next]_vars

----------------------------------------------------------------------------
(* Bibliography codec: str operations *)

\* the first index at which sep occurs in s, 0 when it does not (str.find + 1)
Find(s, sep) ==
    LET hits == {i \in 1..(Len(s) - Len(sep) + 1) : SubSeq(s, i, i + Len(sep) - 1) = sep}
    IN  IF hits = {} THEN 0 ELSE CHOOSE i \in hits : \A j \in hits : i <= j

\* str.split(sep): the list of the pieces between the occurrences of sep
RECURSIVE Split(_, _)
Split(s, sep) ==
    LET i == Find(s, sep) IN
    IF i = 0 THEN <<s>>
    ELSE <<SubSeq(s, 1, i - 1)>> \o Split(SubSeq(s, i + Len(sep), Len(s)), sep)

\* str.split(sep, 1) of a str that contains sep: the pieces around its first occurrence
SplitOnce(s, sep) ==
    LET i == Find(s, sep) IN <<SubSeq(s, 1, i - 1), SubSeq(s, i + Len(sep), Len(s))>>

\* sep.join(parts)
RECURSIVE Join(_, _)
Join(parts, sep) ==
    IF parts = << >> THEN << >>
    ELSE IF Len(parts) = 1 THEN parts[1]
    ELSE parts[1] \o sep \o Join(Tail(parts), sep)

\* str.rstrip(chars), str.lstrip(chars), str.strip(chars): drop the characters
\* of the set chars from the right end, the left end, both ends
RECURSIVE RStripChars(_, _)
RStripChars(s, chars) ==
    IF s # << >> /\ s[Len(s)] \in chars THEN RStripChars(SubSeq(s, 1, Len(s) - 1), chars)
    ELSE s

RECURSIVE LStripChars(_, _)
LStripChars(s, chars) ==
    IF s # << >> /\ Head(s) \in chars THEN LStripChars(Tail(s), chars) ELSE s

StripChars(s, chars) == RStripChars(LStripChars(s, chars), chars)

DigitChars == <<"0", "1", "2", "3", "4", "5", "6", "7", "8", "9">>

IsDigit(ch) == \E i \in 1..10 : DigitChars[i] = ch

DigitValue(ch) == (CHOOSE i \in 1..10 : DigitChars[i] = ch) - 1

\* str(n) of an int
RECURSIVE StrOfNat(_)
StrOfNat(n) ==
    IF n < 10 THEN <<DigitChars[n + 1]>>
    ELSE StrOfNat(n \div 10) \o <<DigitChars[(n % 10) + 1]>>

StrOfInt(n) == IF n < 0 THEN <<"-">> \o StrOfNat(-n) ELSE StrOfNat(n)

\* the number that a str of decimal digits writes
RECURSIVE NatOfDigits(_)
NatOfDigits(ds) ==
    IF ds = << >> THEN 0
    ELSE 10 * NatOfDigits(SubSeq(ds, 1, Len(ds) - 1)) + DigitValue(ds[Len(ds)])

\* int(s): surrounding whitespace and one sign are allowed, then decimal digits
\* with single underscores between them; anything else is a ValueError
IntOfStr(s) ==
    LET t == Strip(s)
        signed == t # << >> /\ Head(t) \in {"+", "-"}
        body == IF signed THEN Tail(t) ELSE t
        wellformed ==
            /\ body # << >>
            /\ \A i \in 1..Len(body) : IsDigit(body[i]) \/ body[i] = "_"
            /\ IsDigit(body[1]) /\ IsDigit(body[Len(body)])
            /\ \A i \in 1..(Len(body) - 1) : ~(body[i] = "_" /\ body[i + 1] = "_")
        value == NatOfDigits(SelectSeq(body, IsDigit))
    IN  IF wellformed
        THEN [ok |-> TRUE, value |-> IF signed /\ Head(t) = "-" THEN -value ELSE value]
        ELSE [ok |-> FALSE, value |-> 0]

\* the characters that \w matches
WordChars ==
    {"a", "b", "c", "d", "e", "f", "g", "h", "i", "j", "k", "l", "m", "n", "o", "p",
     "q", "r", "s", "t", "u", "v", "w", "x", "y", "z",
     "A", "B", "C", "D", "E", "F", "G", "H", "I", "J", "K", "L", "M", "N", "O", "P",
     "Q", "R", "S", "T", "U", "V", "W", "X", "Y", "Z",
     "0", "1", "2", "3", "4", "5", "6", "7", "8", "9", "_"}

----------------------------------------------------------------------------
(* Bibliography codec: generate *)

LitArticle == <<"a", "r", "t", "i", "c", "l", "e">>
LitMisc == <<"m", "i", "s", "c">>
LitTitle == <<"t", "i", "t", "l", "e">>
LitAuthor == <<"a", "u", "t", "h", "o", "r">>
LitYear == <<"y", "e", "a", "r">>
LitJournal == <<"j", "o", "u", "r", "n", "a", "l">>
LitDoi == <<"d", "o", "i">>
LitEprint == <<"e", "p", "r", "i", "n", "t">>
LitArchivePrefix == <<"a", "r", "c", "h", "i", "v", "e", "P", "r", "e", "f", "i", "x">>
LitArXiv == <<"a", "r", "X", "i", "v">>
LitAdsurl == <<"a", "d", "s", "u", "r", "l">>
LitUrl == <<"u", "r", "l">>
LitAnd == <<" ", "a", "n", "d", " ">>
AdsAbsPrefix == <<"h", "t", "t", "p", "s", ":", "/", "/", "u", "i", ".", "a", "d", "s", "a", "b", "s", ".", "h", "a", "r", "v", "a", "r", "d", ".", "e", "d", "u", "/", "a", "b", "s", "/">>

\* f'  key={{{value}}},'
FieldLine(key, value) == <<" ", " ">> \o key \o <<"=", "{">> \o value \o <<"}", ",">>

\* a or b of two Optional[str] values
Or(a, b) == IF Truthy(a) THEN a ELSE b

\* lines 103-104: if citation.ads_bibcode: the adsurl line
AdsurlLines(citation) ==
    IF Truthy(citation.ads_bibcode)
    THEN << FieldLine(LitAdsurl, Or(citation.ads_url, AdsAbsPrefix \o citation.ads_bibcode)) >>
    ELSE << >>

\* an entry type that does not look at the journal
EntryTypeAlwaysArticle(citation) == LitArticle

\* line 89: entry_type = "article" if citation.journal else "misc"
EntryType(citation) == IF Truthy(citation.journal) THEN LitArticle ELSE LitMisc

\* CitationManager._generate_basic_bibtex
_generate_basic_bibtex(citation) ==
    LET lines ==
            << <<"@">> \o EntryType(citation) \o <<"{">> \o citation.citekey \o <<",">>,
               FieldLine(LitTitle, citation.title),
               FieldLine(LitAuthor, Join(citation.authors, LitAnd)),
               FieldLine(LitYear, StrOfInt(citation.year)) >>
            \o (IF Truthy(citation.journal)
                THEN << FieldLine(LitJournal, citation.journal) >> ELSE << >>)
            \o (IF Truthy(citation.doi)
                THEN << FieldLine(LitDoi, citation.doi) >> ELSE << >>)
            \o (IF Truthy(citation.arxiv_id)
                THEN << FieldLine(LitEprint, citation.arxiv_id),
                        FieldLine(LitArchivePrefix, LitArXiv) >> ELSE << >>)
            \o AdsurlLines(citation)
            \o (IF Truthy(citation.publisher_url)
                THEN << FieldLine(LitUrl, citation.publisher_url) >> ELSE << >>)
            \o << <<"}">> >>
    IN  Join(lines, <<"\n">>)

----------------------------------------------------------------------------
(* Bibliography codec: parse *)

\* what create_citation_from_bibtex returns instead of a Citation: None, and
\* what a caller sees when an exception leaves it
NoCitation == [none |-> TRUE]
ParseRaised == [raised |-> "ValueError"]

\* re.match(r'@\w+\{([^,]+),', line): "@", the longest run of word characters
\* (one at least) with "{" right after it, then the characters, one at least,
\* before the first comma after it
MatchCitekey(line) ==
    LET nonword == {i \in 2..Len(line) : line[i] \notin WordChars}
        brace == IF nonword = {} THEN 0 ELSE CHOOSE i \in nonword : \A j \in nonword : i <= j
        rest == SubSeq(line, brace + 1, Len(line))
        comma == Find(rest, <<",">>)
    IN  IF /\ line # << >>
           /\ line[1] = "@"
           /\ brace > 2
           /\ line[brace] = "{"
           /\ comma > 1
        THEN [matched |-> TRUE, group1 |-> SubSeq(rest, 1, comma - 1)]
        ELSE [matched |-> FALSE, group1 |-> << >>]

\* the locals of create_citation_from_bibtex set by lines 259-264
InitialFields ==
    [title |-> << >>, authors |-> << >>, year |-> 0, journal |-> None,
     doi |-> None, arxiv_id |-> None, raised |-> FALSE]

\* authors = [a.strip() for a in value.split(' and ')]
AuthorsOf(value) ==
    LET parts == Split(value, LitAnd) IN [i \in 1..Len(parts) |-> Strip(parts[i])]

\* a year branch without the try: the ValueError of int(value) leaves the function
OnYearValueUncaught(fields, value) ==
    IF IntOfStr(value).ok THEN [fields EXCEPT !.year = IntOfStr(value).value]
    ELSE [fields EXCEPT !.raised = TRUE]

\* lines 278-281: try: year = int(value) except ValueError: pass
OnYearValue(fields, value) ==
    IF IntOfStr(value).ok THEN [fields EXCEPT !.year = IntOfStr(value).value]
    ELSE fields

\* lines 273-287: the branches on the key of a key=value line
OnKeyValue(fields, key, value) ==
    CASE key = LitTitle -> [fields EXCEPT !.title = value]
      [] key = LitAuthor -> [fields EXCEPT !.authors = AuthorsOf(value)]
      [] key = LitYear -> OnYearValue(fields, value)
      [] key = LitJournal -> [fields EXCEPT !.journal = value]
      [] key = LitDoi -> [fields EXCEPT !.doi = value]
      [] key = LitEprint -> [fields EXCEPT !.arxiv_id = value]
      [] OTHER -> fields

\* lines 267-271: one iteration of the loop over lines[1:]
ParseLine(fields, rawline) ==
    LET line == RStripChars(Strip(rawline), {","}) IN
    IF Find(line, <<"=">>) = 0 THEN fields
    ELSE LET kv == SplitOnce(line, <<"=">>)
             key == Strip(kv[1])
             value == StripChars(StripChars(Strip(kv[2]), {"{", "}"}), {"\""})
         IN  OnKeyValue(fields, key, value)

\* the loop over lines[1:], from line i on
RECURSIVE ParseLines(_, _, _)
ParseLines(lines, i, fields) ==
    IF i > Len(lines) \/ fields.raised THEN fields
    ELSE ParseLines(lines, i + 1, ParseLine(fields, lines[i]))

\* line 289: all([citekey, title, authors, year])
AllRequired(citekey, fields) ==
    citekey # << >> /\ fields.title # << >> /\ fields.authors # << >> /\ fields.year # 0

\* create_citation_from_bibtex
create_citation_from_bibtex(bibtex_entry) ==
    LET lines == Split(Strip(bibtex_entry), <<"\n">>)
        match == MatchCitekey(lines[1])
        fields == ParseLines(lines, 2, InitialFields)
    IN  IF ~match.matched THEN NoCitation
        ELSE IF fields.raised THEN ParseRaised
        ELSE IF ~AllRequired(match.group1, fields) THEN NoCitation
        ELSE Citation(match.group1, fields.title, fields.authors, fields.year, fields.journal, None, fields.doi, fields.arxiv_id, None, None, bibtex_entry)

\* what create_citation_from_bibtex returned is a Citation
IsCitation(ret) == "citekey" \in DOMAIN ret

----------------------------------------------------------------------------
(* Runs of the codec: generate and parse as pure functions *)

\* the records without cached text that a caller may hand to the generator
AuthorNames == { <<"A">>, <<"B", " ", "c">> }

AuthorLists == UNION { [1..n -> AuthorNames] : n \in 1..MaxAuthors }

CodecRecords ==
    { Citation(K1, title, authors, year, journal, ads_bibcode, doi, arxiv_id, ads_url, publisher_url, << >>) :
        title \in { <<"A", "b">>, <<"{", "A", "}">> },
        authors \in AuthorLists,
        year \in {1977, 0},
        journal \in {None, << >>, J1},
        ads_bibcode \in {None, << >>, B1},
        doi \in {None, D1},
        arxiv_id \in {None, X1},
        ads_url \in {None, U1},
        publisher_url \in {None, << >>, P1} }

\* the texts that a caller may hand to the parser: a first line, then any of a
\* title line, an author line, year lines and one more line, then "}"
HeadLines ==
    { <<"@", "m", "i", "s", "c", "{", "k", "1", ",">>, <<"m", "i", "s", "c", "{", "k", "1", ",">>, <<"@", "m", "i", "s", "c", "{", "k", "1">>, <<"@", "m", "i", "s", "c", "{", ",">>,
      <<"@", "{", "k", "1", ",">>, <<"@", "m", "i", "s", "c", " ", "k", "1", ",">> }

TitleLines ==
    { << >>, << <<" ", " ", "t", "i", "t", "l", "e", "=", "{", "A", "b", "}", ",">> >>, << <<" ", " ", "t", "i", "t", "l", "e", "=", "{", "}", ",">> >>,
      << <<" ", " ", "t", "i", "t", "l", "e", " ", "=", " ", "\"", "A", "b", "\"", " ", ",">> >> }

AuthorLines ==
    { << >>, << <<" ", " ", "a", "u", "t", "h", "o", "r", "=", "{", "A", " ", "a", "n", "d", " ", "B", " ", "c", "}", ",">> >>, << <<" ", " ", "a", "u", "t", "h", "o", "r", "=", "{", "}", ",">> >> }

YearLines ==
    { << >>, << <<" ", " ", "y", "e", "a", "r", "=", "{", "1", "9", "7", "7", "}", ",">> >>, << <<" ", " ", "y", "e", "a", "r", "=", "{", "x", "}", ",">> >>,
      << <<" ", " ", "y", "e", "a", "r", "=", "{", "0", "}", ",">> >>, << <<" ", " ", "y", "e", "a", "r", "=", "{", "1", "9", "7", "7", "}", ",">>, <<" ", " ", "y", "e", "a", "r", "=", "{", "x", "}", ",">> >> }

NoteLine == <<" ", " ", "n", "o", "t", "e", "=", "{", "z", "}", ",">>

OtherLines == { << >>, << NoteLine >>, << <<" ", " ", "s", "e", "e", " ", "a", "b", "o", "v", "e">> >> }

CodecTexts ==
    { Join(<<h>> \o o \o t \o a \o y \o << <<"}">> >>, <<"\n">>) :
        h \in HeadLines, o \in OtherLines, t \in TitleLines, a \in AuthorLines,
        y \in YearLines }

\* the record of a completed _generate_basic_bibtex
CompletedGenerate(citation, ret) ==
    [op |-> "_generate_basic_bibtex", arg |-> citation, ret |-> ret]

\* the record of a completed create_citation_from_bibtex: source is the record
\* that the text was generated from, if it was generated
CompletedParse(bibtex_entry, ret, source) ==
    [op |-> "create_citation_from_bibtex", arg |-> bibtex_entry, ret |-> ret,
     source |-> source]

\* no call was made yet, and the caller holds a record or a text to hand over
CallerHolds(citation, text) ==
    [op |-> "__init__", ret |-> None, record |-> citation, text |-> text]

\* the codec runs start with what the caller holds: each run applies the codec
\* to one input
InitCodec ==
    /\ max_retries = 3
    /\ citations = EmptyDict
    /\ order = << >>
    /\ pc = "idle"
    /\ va = NoVa
    /\ vc = NoVc
    /\ vu = NoVu
    /\ last \in {CallerHolds(citation, << >>) : citation \in CodecRecords}
                \cup {CallerHolds(NoCitation, text) : text \in CodecTexts}

\* the caller generates the text of its record
GenerateBasicBibtex ==
    /\ pc = "idle"
    /\ last.op = "__init__" /\ IsCitation(last.record)
    /\ last' = CompletedGenerate(last.record, _generate_basic_bibtex(last.record))
    /\ UNCHANGED <<max_retries, citations, order, pc, va, vc, vu>>

\* the caller parses the text that the generator has just returned
ParseGenerated ==
    /\ pc = "idle"
    /\ last.op = "_generate_basic_bibtex"
    /\ last' = CompletedParse(last.ret, create_citation_from_bibtex(last.ret), last.arg)
    /\ UNCHANGED <<max_retries, citations, order, pc, va, vc, vu>>

\* the caller parses its text
ParseText ==
    /\ pc = "idle"
    /\ last.op = "__init__" /\ ~IsCitation(last.record)
    /\ last' = CompletedParse(last.text, create_citation_from_bibtex(last.text), NoCitation)
    /\ UNCHANGED <<max_retries, citations, order, pc, va, vc, vu>>

NextCodec == GenerateBasicBibtex \/ ParseGenerated \/ ParseText

SpecCodec == InitCodec /\ [][NextCodec]_vars

----------------------------------------------------------------------------
(* Ledger: json.dump and json.load of the list of record dicts *)

\* The structure of the JSON document (the list, the objects, the member
\* names, indent=2) is kept as a sequence of records; the text of every scalar
\* is written and read character by character.

LitNull == <<"n", "u", "l", "l">>
LitTrue == <<"t", "r", "u", "e">>
LitFalse == <<"f", "a", "l", "s", "e">>

\* an encoder that leaves the backslash as it is
EscapeCharNoBackslash(ch) ==
    CASE ch = "\"" -> <<"\\", "\"">>
      [] ch = "\n" -> <<"\\", "n">>
      [] ch = "\t" -> <<"\\", "t">>
      [] OTHER -> <<ch>>

\* json.dump, ensure_ascii=False: one character of a str
EscapeChar(ch) ==
    CASE ch = "\"" -> <<"\\", "\"">>
      [] ch = "\\" -> <<"\\", "\\">>
      [] ch = "\n" -> <<"\\", "n">>
      [] ch = "\t" -> <<"\\", "t">>
      [] OTHER -> <<ch>>

RECURSIVE EscapeStr(_)
EscapeStr(s) == IF s = << >> THEN << >> ELSE EscapeChar(Head(s)) \o EscapeStr(Tail(s))

\* the JSON text of a str, an Optional[str], an int, an Optional[int], a bool
JsonOfStr(s) == <<"\"">> \o EscapeStr(s) \o <<"\"">>
JsonOfOptStr(v) == IF v = None THEN LitNull ELSE JsonOfStr(v)
JsonOfInt(n) == StrOfInt(n)
JsonOfOptInt(n) == IF n = NoneInt THEN LitNull ELSE StrOfInt(n)
JsonOfBool(b) == IF b THEN LitTrue ELSE LitFalse

\* the fields of the dataclass by their types (lines 18-34)
StrFields == {"citekey", "title", "notes", "bibtex_entry"}
OptStrFields == {"journal", "ads_bibcode", "doi", "arxiv_id", "ads_url", "publisher_url", "last_verified"}
IntFields == {"year"}
OptIntFields == {"http_status_ads", "http_status_doi"}
BoolFields == {"crossref_match", "ads_match"}
ListFields == {"authors"}
RequiredFields == {"citekey", "title", "authors", "year"}
FieldNames == StrFields \cup OptStrFields \cup IntFields \cup OptIntFields \cup BoolFields \cup ListFields

\* the JSON text of the value of field f; a list is the sequence of the texts
\* of its elements
JsonOfField(f, v) ==
    CASE f \in StrFields -> JsonOfStr(v)
      [] f \in OptStrFields -> JsonOfOptStr(v)
      [] f \in IntFields -> JsonOfInt(v)
      [] f \in OptIntFields -> JsonOfOptInt(v)
      [] f \in BoolFields -> JsonOfBool(v)
      [] OTHER -> [i \in 1..Len(v) |-> JsonOfStr(v[i])]

\* json.dump(data, f, indent=2, ensure_ascii=False)
JsonDump(data) ==
    [i \in 1..Len(data) |-> [f \in DOMAIN data[i] |-> JsonOfField(f, data[i][f])]]

\* the result of reading a JSON text: a value, or a JSONDecodeError
Decoded(v) == [ok |-> TRUE, value |-> v]
JSONDecodeError == [ok |-> FALSE, value |-> << >>]

\* the characters of a JSON string from position i on: an escape, the closing
\* quote (which ends the text), or a character that is no control character
RECURSIVE ReadStr(_, _, _)
ReadStr(text, i, acc) ==
    IF i > Len(text) THEN JSONDecodeError
    ELSE IF text[i] = "\"" THEN (IF i = Len(text) THEN Decoded(acc) ELSE JSONDecodeError)
    ELSE IF text[i] = "\\"
    THEN IF i = Len(text) THEN JSONDecodeError
         ELSE CASE text[i + 1] = "\"" -> ReadStr(text, i + 2, Append(acc, "\""))
                [] text[i + 1] = "\\" -> ReadStr(text, i + 2, Append(acc, "\\"))
                [] text[i + 1] = "n" -> ReadStr(text, i + 2, Append(acc, "\n"))
                [] text[i + 1] = "t" -> ReadStr(text, i + 2, Append(acc, "\t"))
                [] OTHER -> JSONDecodeError
    ELSE IF text[i] \in {"\n", "\t"} THEN JSONDecodeError
    ELSE ReadStr(text, i + 1, Append(acc, text[i]))

StrOfJson(text) ==
    IF text # << >> /\ Head(text) = "\"" THEN ReadStr(text, 2, << >>) ELSE JSONDecodeError

\* a JSON number without fraction and exponent: -?(0|[1-9][0-9]*)
IntOfJson(text) ==
    LET body == IF text # << >> /\ Head(text) = "-" THEN Tail(text) ELSE text IN
    IF /\ body # << >>
       /\ \A i \in 1..Len(body) : IsDigit(body[i])
       /\ (Len(body) > 1 => body[1] # "0")
    THEN Decoded(IF Head(text) = "-" THEN -NatOfDigits(body) ELSE NatOfDigits(body))
    ELSE JSONDecodeError

\* json.load of the value of member f: null is None, true and false are the
\* bools, a text that starts with a quote is a str, any other text a number
ValueOfJson(f, text) ==
    CASE f \in ListFields ->
             IF \A i \in 1..Len(text) : StrOfJson(text[i]).ok
             THEN Decoded([i \in 1..Len(text) |-> StrOfJson(text[i]).value])
             ELSE JSONDecodeError
      [] text = LitNull -> Decoded(IF f \in OptIntFields \cup IntFields THEN NoneInt ELSE None)
      [] text = LitTrue -> Decoded(TRUE)
      [] text = LitFalse -> Decoded(FALSE)
      [] text # << >> /\ Head(text) = "\"" -> StrOfJson(text)
      [] OTHER -> IntOfJson(text)

\* json.load(f): the list of dicts, or a JSONDecodeError
JsonLoad(doc) ==
    IF \A i \in 1..Len(doc) : \A f \in DOMAIN doc[i] : ValueOfJson(f, doc[i][f]).ok
    THEN Decoded([i \in 1..Len(doc) |-> [f \in DOMAIN doc[i] |-> ValueOfJson(f, doc[i][f]).value]])
    ELSE JSONDecodeError

\* the defaults of the optional fields (lines 22-34)
DefaultOf(f) ==
    CASE f \in OptStrFields -> None
      [] f \in OptIntFields -> NoneInt
      [] f \in BoolFields -> FALSE
      [] OTHER -> << >>

\* Citation.from_dict: cls(**data) is a TypeError when data has a name that is
\* no field or lacks a field without default
from_dict(data) ==
    IF (DOMAIN data) \subseteq FieldNames /\ RequiredFields \subseteq DOMAIN data
    THEN [f \in FieldNames |-> IF f \in DOMAIN data THEN data[f] ELSE DefaultOf(f)]
    ELSE [raised |-> "TypeError"]

\* what is at a path of the file system: a file with a JSON document, or nothing
LedgerFile(doc) == [exists |-> TRUE, doc |-> doc]
NoFile == [exists |-> FALSE, doc |-> << >>]

\* an insertion that keeps the record that is already there
LoadRecordKeepsFirst(st, data) ==
    LET citation == from_dict(data) IN
    IF st.raised THEN st
    ELSE IF ~IsCitation(citation) THEN [st EXCEPT !.raised = TRUE]
    ELSE IF citation.citekey \in DOMAIN st.citations THEN st
    ELSE LET set == DictSet(st.citations, st.order, citation.citekey, citation)
         IN  [st EXCEPT !.citations = set.citations, !.order = set.order]

\* lines 65-67: one iteration of the loop over data; the TypeError of from_dict
\* leaves load_from_ledger
LoadRecord(st, data) ==
    LET citation == from_dict(data) IN
    IF st.raised THEN st
    ELSE IF ~IsCitation(citation) THEN [st EXCEPT !.raised = TRUE]
    ELSE LET set == DictSet(st.citations, st.order, citation.citekey, citation)
         IN  [st EXCEPT !.citations = set.citations, !.order = set.order]

RECURSIVE LoadLedgerRecords(_, _, _)
LoadLedgerRecords(data, i, st) ==
    IF i > Len(data) THEN st ELSE LoadLedgerRecords(data, i + 1, LoadRecord(st, data[i]))

\* Citation.to_dict: asdict(self), a dict with the fields of the record
to_dict(citation) == citation

\* CitationManager.save_to_ledger: the document that json.dump writes
save_to_ledger(d, ord) == JsonDump([i \in 1..Len(ord) |-> to_dict(d[ord[i]])])

\* a load that lets the FileNotFoundError go to the caller
OnFileNotFoundReraise(d, ord) ==
    [citations |-> d, order |-> ord, raised |-> TRUE, found |-> FALSE]

\* lines 68-69: except FileNotFoundError: print(...)
OnFileNotFound(d, ord) ==
    [citations |-> d, order |-> ord, raised |-> FALSE, found |-> FALSE]

\* CitationManager.load_from_ledger on the dict d with key order ord and what
\* is at filepath: raised tells whether an exception left the call
load_from_ledger(d, ord, file) ==
    IF ~file.exists THEN OnFileNotFound(d, ord)
    ELSE IF ~JsonLoad(file.doc).ok
    THEN [citations |-> d, order |-> ord, raised |-> TRUE, found |-> TRUE]
    ELSE LoadLedgerRecords(JsonLoad(file.doc).value, 1,
                      [citations |-> d, order |-> ord, raised |-> FALSE, found |-> TRUE])

----------------------------------------------------------------------------
(* Output of the store: generate_bibtex, save_to_ledger, get_verification_report *)

\* a block that is always derived from the fields
BlockOfAlwaysGenerated(citation) == _generate_basic_bibtex(citation)

\* lines 81-85: the cached text if there is one, else the generated text
BlockOf(citation) ==
    IF Truthy(citation.bibtex_entry) THEN citation.bibtex_entry
    ELSE _generate_basic_bibtex(citation)

\* the characters with code points 32..126 in the order of their code points
\* (the grave accent, code point 96, is written by its name)
AsciiChars ==
    << " ", "!", "\"", "#", "$", "%", "&", "'", "(", ")", "*", "+",
       ",", "-", ".", "/", "0", "1", "2", "3", "4", "5", "6", "7",
       "8", "9", ":", ";", "<", "=", ">", "?", "@", "A", "B", "C",
       "D", "E", "F", "G", "H", "I", "J", "K", "L", "M", "N", "O",
       "P", "Q", "R", "S", "T", "U", "V", "W", "X", "Y", "Z", "[",
       "\\", "]", "^", "_", "(grave)", "a", "b", "c", "d", "e", "f", "g",
       "h", "i", "j", "k", "l", "m", "n", "o", "p", "q", "r", "s",
       "t", "u", "v", "w", "x", "y", "z", "{", "|", "}", "~" >>

\* ord(ch)
CodePoint(ch) == 31 + (CHOOSE i \in 1..Len(AsciiChars) : AsciiChars[i] = ch)

\* a < b of two str values: by code point, a proper prefix comes first
RECURSIVE StrLess(_, _)
StrLess(a, b) ==
    IF b = << >> THEN FALSE
    ELSE IF a = << >> THEN TRUE
    ELSE IF Head(a) = Head(b) THEN StrLess(Tail(a), Tail(b))
    ELSE CodePoint(Head(a)) < CodePoint(Head(b))

\* a sort key that is the year alone
SortKeyLessYearOnly(a, b) == a.year < b.year

\* line 80: key=lambda x: (x.year, x.citekey), compared as tuples
SortKeyLess(a, b) ==
    a.year < b.year \/ (a.year = b.year /\ StrLess(a.citekey, b.citekey))

\* sorted(values, key=...): a stable sort; the values are inserted one by one,
\* each behind the values that are not greater
InsertSorted(sorted, x) ==
    LET greater == {i \in 1..Len(sorted) : SortKeyLess(x, sorted[i])}
        at == IF greater = {} THEN Len(sorted) + 1
              ELSE CHOOSE i \in greater : \A j \in greater : i <= j
    IN  SubSeq(sorted, 1, at - 1) \o <<x>> \o SubSeq(sorted, at, Len(sorted))

RECURSIVE SortedFrom(_, _, _)
SortedFrom(values, i, sorted) ==
    IF i > Len(values) THEN sorted
    ELSE SortedFrom(values, i + 1, InsertSorted(sorted, values[i]))

Sorted(values) == SortedFrom(values, 1, << >>)

\* self.citations.values()
Values(d, ord) == [i \in 1..Len(ord) |-> d[ord[i]]]

\* an iteration that keeps the text it has generated in the record
WriteBlockCachesText(st, citation) ==
    [file |-> st.file \o BlockOf(citation) \o <<"\n", "\n">>,
     writes |-> Append(st.writes, [citekey |-> citation.citekey,
                                   text |-> BlockOf(citation) \o <<"\n", "\n">>]),
     citations |-> [st.citations EXCEPT ![citation.citekey].bibtex_entry = BlockOf(citation)]]

\* lines 81-85: one iteration of the loop of generate_bibtex: one f.write; st
\* holds the file, the texts written so far and the dict
WriteBlock(st, citation) ==
    [file |-> st.file \o BlockOf(citation) \o <<"\n", "\n">>,
     writes |-> Append(st.writes, [citekey |-> citation.citekey,
                                   text |-> BlockOf(citation) \o <<"\n", "\n">>]),
     citations |-> st.citations]

RECURSIVE WriteBlocks(_, _, _)
WriteBlocks(sorted, i, st) ==
    IF i > Len(sorted) THEN st
    ELSE WriteBlocks(sorted, i + 1, WriteBlock(st, sorted[i]))

\* CitationManager.generate_bibtex on the dict d with key order ord
generate_bibtex(d, ord) ==
    WriteBlocks(Sorted(Values(d, ord)), 1,
                [file |-> << >>, writes |-> << >>, citations |-> d])


\* a report that counts every recorded status as a live URL
ReportCountsAnyStatus(d) ==
    LET total == Cardinality(DOMAIN d)
        verified == Cardinality({k \in DOMAIN d : Truthy(d[k].last_verified)})
        ads_valid == Cardinality({k \in DOMAIN d : d[k].http_status_ads # NoneInt})
        doi_valid == Cardinality({k \in DOMAIN d : d[k].http_status_doi # NoneInt})
    IN  [total_citations |-> total, verified_count |-> verified,
         ads_urls_valid |-> ads_valid, doi_urls_valid |-> doi_valid,
         verification_percentage |->
             IF total > 0 THEN <<verified * 100, total>> ELSE <<0, 1>>]

\* CitationManager.get_verification_report; the quotient verified / total * 100
\* is kept as the pair of its numerator and denominator
get_verification_report(d) ==
    LET total == Cardinality(DOMAIN d)
        verified == Cardinality({k \in DOMAIN d : Truthy(d[k].last_verified)})
        ads_valid == Cardinality({k \in DOMAIN d : d[k].http_status_ads = 200})
        doi_valid == Cardinality({k \in DOMAIN d : d[k].http_status_doi = 200})
    IN  [total_citations |-> total, verified_count |-> verified,
         ads_urls_valid |-> ads_valid, doi_urls_valid |-> doi_valid,
         verification_percentage |->
             IF total > 0 THEN <<verified * 100, total>> ELSE <<0, 1>>]

\* the record of a completed generate_bibtex or save_to_ledger: what was
\* written, and the store as it was when the call was made
CompletedWrite(op, file, writes, d, ord) ==
    [op |-> op, ret |-> None, file |-> file, writes |-> writes,
     before |-> [citations |-> d, order |-> ord]]

\* the record of a completed get_verification_report
CompletedReport(ret, d, ord) ==
    [op |-> "get_verification_report", ret |-> ret,
     before |-> [citations |-> d, order |-> ord]]

\* the manager of the output runs: one attempt per URL
InitBib ==
    /\ max_retries = 1
    /\ citations = EmptyDict
    /\ order = << >>
    /\ pc = "idle"
    /\ va = NoVa
    /\ vc = NoVc
    /\ vu = NoVu
    /\ last = NoCall

\* the records that a caller of the output runs may build under citekey k: a
\* plain record of either year, a record that carries a text and a DOI, a
\* record that carries a text and no optional field, and a record with a DOI
\* and no text
CachedText == <<"@", "m", "i", "s", "c", "{", "o", "l", "d", ",", "\n", " ", " ", "u", "r", "l", "=", "{", "h", "t", "t", "p", ":", "/", "/", "p", "u", "b", "}", ",", "\n", "}">>

BibKeyPool == << <<"k", "2">>, <<"k", "1", "0">>, <<"K", "3">>, <<"k", "1">> >>

BibInputs(k) ==
    { Citation(k, <<"A", "b">>, TheAuthors, 1977, None, None, None, None, None, None, << >>),
      Citation(k, <<"A", "b">>, TheAuthors, 1978, None, None, None, None, None, None, << >>),
      Citation(k, <<"A", "b">>, TheAuthors, 1977, None, None, D1, None, None, P1, CachedText),
      Citation(k, <<"A", "b">>, TheAuthors, 1978, None, None, None, None, None, None, CachedText),
      Citation(k, <<"A", "c">>, TheAuthors, 1977, None, None, D1, None, None, None, << >>) }

\* a caller adds a record under a citekey that is not in the store; these runs
\* fill the store first and use it afterwards
AddBibCitation ==
    /\ last.op \in {"__init__", "add_citation"}
    /\ \E k \in {BibKeyPool[i] : i \in 1..MaxBibRecords} \ DOMAIN citations :
           \E citation \in BibInputs(k) : add_citation(citation)

\* a caller runs CitationManager.generate_bibtex
GenerateBibtex ==
    /\ pc = "idle"
    /\ \E out \in {generate_bibtex(citations, order)} :
       /\ citations' = out.citations
       /\ last' = CompletedWrite("generate_bibtex", out.file, out.writes, citations, order)
    /\ UNCHANGED <<max_retries, order, pc, va, vc, vu>>

\* a caller runs CitationManager.save_to_ledger
SaveToLedger ==
    /\ pc = "idle"
    /\ last' = CompletedWrite("save_to_ledger", save_to_ledger(citations, order), << >>,
                              citations, order)
    /\ UNCHANGED <<max_retries, citations, order, pc, va, vc, vu>>

\* a caller runs CitationManager.get_verification_report
GetVerificationReport ==
    /\ pc = "idle"
    /\ last' = CompletedReport(get_verification_report(citations), citations, order)
    /\ UNCHANGED <<max_retries, citations, order, pc, va, vc, vu>>

\* a caller runs CitationManager.verify_citation on a record of the store
VerifyStoredCitation ==
    /\ pc = "idle"
    /\ \E citekey \in DOMAIN citations : EnterVerifyCitation(citekey, "caller")

NextBib ==
    \/ AddBibCitation
    \/ GenerateBibtex
    \/ SaveToLedger
    \/ GetVerificationReport
    \/ DeduplicateCitations
    \/ VerifyStoredCitation
    \/ CheckAdsUrl
    \/ CheckDoi
    \/ HeadAttempt
    \/ FinishVerifyCitation

SpecBib == InitBib /\ [][NextBib]_vars

----------------------------------------------------------------------------
(* Bulk load of interchange text: ReviewOrchestrator._load_existing_bibliography *)




\* main.py lines 84-86: entries = [], current_entry = [], in_entry = False
InitialSplit == [entries |-> << >>, current_entry |-> << >>, in_entry |-> FALSE]

\* line.strip().startswith('@')
StartsEntry(line) == Strip(line) # << >> /\ Head(Strip(line)) = "@"

\* main.py lines 88-97: one iteration of the loop over content.split('\n')
SplitLine(st, line) ==
    IF StartsEntry(line)
    THEN [entries |-> IF st.current_entry # << >>
                      THEN Append(st.entries, Join(st.current_entry, <<"\n">>))
                      ELSE st.entries,
          current_entry |-> <<line>>,
          in_entry |-> TRUE]
    ELSE IF st.in_entry
    THEN [st EXCEPT !.current_entry = Append(@, line),
                    !.in_entry = (Strip(line) # <<"}">>)]
    ELSE st

RECURSIVE SplitLines(_, _, _)
SplitLines(lines, i, st) ==
    IF i > Len(lines) THEN st ELSE SplitLines(lines, i + 1, SplitLine(st, lines[i]))

\* main.py lines 83-100: the entries of the file content
EntriesOf(content) ==
    LET st == SplitLines(Split(content, <<"\n">>), 1, InitialSplit)
    IN  IF st.current_entry # << >>
        THEN Append(st.entries, Join(st.current_entry, <<"\n">>))
        ELSE st.entries

\* main.py lines 103-106: one iteration of the loop over entries; an exception
\* of the parser ends the loop in the except clause of line 108, which returns
LoadEntry(st, entry) ==
    LET citation == create_citation_from_bibtex(entry) IN
    IF st.stopped THEN st
    ELSE IF citation = ParseRaised THEN [st EXCEPT !.stopped = TRUE, !.caught = TRUE]
    ELSE IF IsCitation(citation)
    THEN LET set == DictSet(st.citations, st.order, citation.citekey, citation)
         IN  [st EXCEPT !.citations = set.citations, !.order = set.order,
                        !.added = Append(@, citation.citekey)]
    ELSE st

RECURSIVE LoadEntries(_, _, _)
LoadEntries(entries, i, st) ==
    IF i > Len(entries) THEN st ELSE LoadEntries(entries, i + 1, LoadEntry(st, entries[i]))

\* ReviewOrchestrator._load_existing_bibliography on the dict d with key order
\* ord and a file with this content: added lists the add_citation calls, caught
\* tells whether the except clause ran
_load_existing_bibliography(d, ord, content) ==
    LoadEntries(EntriesOf(content), 1,
                [citations |-> d, order |-> ord, added |-> << >>,
                 stopped |-> FALSE, caught |-> FALSE])

\* the entry blocks of the files of the load runs: the texts generated for four
\* records (two of one citekey, one of year 0), a block that closes on its last
\* field line, a block with a year that is no number, a block whose first line
\* lost its "@", and a block without title and closing line
LoadRecords ==
    << Citation(K1, <<"A", "b">>, TheAuthors, 1977, None, None, None, None, None, None, << >>),
       Citation(K2, <<"A", "c">>, TheAuthors, 1978, J1, None, D1, None, None, None, << >>),
       Citation(K1, <<"B">>, << <<"A">> >>, 1978, None, None, None, None, None, None, << >>),
       Citation(K3, <<"A", "b">>, TheAuthors, 0, None, None, None, None, None, None, << >>) >>

LoadBlocks ==
    { _generate_basic_bibtex(LoadRecords[i]) : i \in 1..Len(LoadRecords) }
    \cup { <<"@", "m", "i", "s", "c", "{", "k", "4", ",", "\n", " ", " ", "t", "i", "t", "l", "e", "=", "{", "A", "b", "}", ",", "\n", " ", " ", "a", "u", "t", "h", "o", "r", "=", "{", "A", "}", ",", "\n", " ", " ", "y", "e", "a", "r", "=", "{", "1", "9", "7", "7", "}", "}">>,
           <<" ", " ", "@", "m", "i", "s", "c", "{", "k", "5", ",", "\n", " ", " ", "t", "i", "t", "l", "e", "=", "{", "A", "b", "}", ",", "\n", " ", " ", "a", "u", "t", "h", "o", "r", "=", "{", "A", "}", ",", "\n", " ", " ", "y", "e", "a", "r", "=", "{", "x", "}", ",", "\n", "}">>,
           <<"m", "i", "s", "c", "{", "k", "7", ",", "\n", " ", " ", "t", "i", "t", "l", "e", "=", "{", "}", ",", "\n", "}">>,
           <<"@", "m", "i", "s", "c", "{", "k", "6", ",", "\n", " ", " ", "a", "u", "t", "h", "o", "r", "=", "{", "A", "}", ",", "\n", " ", " ", "y", "e", "a", "r", "=", "{", "1", "9", "7", "7", "}", ",">> }

\* the file that holds these blocks, each followed by a blank line
RECURSIVE FileOf(_)
FileOf(blocks) ==
    IF blocks = << >> THEN << >>
    ELSE Head(blocks) \o <<"\n", "\n">> \o FileOf(Tail(blocks))

LoadFiles == UNION { [1..n -> LoadBlocks] : n \in 1..MaxBlocks }

\* no call was made yet, and the bibliography file of the configuration holds
\* these blocks
FileHolds(blocks) ==
    [op |-> "__init__", ret |-> None, blocks |-> blocks, content |-> FileOf(blocks)]

\* the record of a completed _load_existing_bibliography
CompletedLoad(blocks, out) ==
    [op |-> "_load_existing_bibliography", ret |-> None, blocks |-> blocks,
     added |-> out.added, caught |-> out.caught]

InitLoad ==
    /\ max_retries = 3
    /\ citations = EmptyDict
    /\ order = << >>
    /\ pc = "idle"
    /\ va = NoVa
    /\ vc = NoVc
    /\ vu = NoVu
    /\ last \in {FileHolds(blocks) : blocks \in LoadFiles}

\* initialize_project, main.py lines 70-74: the file exists and is loaded
LoadExistingBibliography ==
    /\ pc = "idle"
    /\ last.op = "__init__"
    /\ \E out \in {_load_existing_bibliography(citations, order, last.content)} :
       /\ citations' = out.citations
       /\ order' = out.order
       /\ last' = CompletedLoad(last.blocks, out)
    /\ UNCHANGED <<max_retries, pc, va, vc, vu>>

NextLoad == LoadExistingBibliography

SpecLoad == InitLoad /\ [][NextLoad]_vars

----------------------------------------------------------------------------
(* Runs of the store with its ledger *)

\* the manager of the ledger runs: one attempt per URL
InitStore ==
    /\ max_retries = 1
    /\ citations = EmptyDict
    /\ order = << >>
    /\ pc = "idle"
    /\ va = NoVa
    /\ vc = NoVc
    /\ vu = NoVu
    /\ last = NoCall

\* the records that a caller of the ledger runs may build under citekey k: a
\* record with a cached text, a note and a flag set, and a record of the same
\* title and year with a journal and a DOI
StoreText == <<"@", "m", "i", "s", "c", "{", "o", "l", "d", ",", "\n", " ", " ", "n", "o", "t", "e", "=", "\"", "\\", "a", "\"", ",", "\n", "}">>

StoreInputs(k) ==
    { [Citation(k, <<"\\", "a">>, TheAuthors, 1977, None, None, None, None, None, None, StoreText)
          EXCEPT !.notes = <<"n">>, !.crossref_match = TRUE],
      Citation(k, <<"\\", "a">>, TheAuthors, 1977, J1, None, D1, None, None, None, << >>) }

\* the ledgers that earlier runs have left in the file system: one written by
\* save_to_ledger with a record that was verified then, one whose record has
\* the four fields without default only, and one whose second record lacks
\* its title
EarlierLedgers ==
    { save_to_ledger(
          K1 :> [Citation(K1, <<"A", "b">>, TheAuthors, 1978, None, B1, None, None, None, P1, << >>)
                    EXCEPT !.last_verified = <<"t", "0">>, !.http_status_ads = 200,
                           !.http_status_doi = 0],
          <<K1>>),
      << [citekey |-> JsonOfStr(K2), title |-> JsonOfStr(<<"A", "b">>),
          authors |-> << JsonOfStr(<<"A">>) >>, year |-> JsonOfInt(1978)] >>,
      << [citekey |-> JsonOfStr(K1), title |-> JsonOfStr(<<"A", "c">>),
          authors |-> << JsonOfStr(<<"A">>) >>, year |-> JsonOfInt(1978)],
         [citekey |-> JsonOfStr(K2), authors |-> << JsonOfStr(<<"A">>) >>,
          year |-> JsonOfInt(1978)] >> }

\* the record of a completed load_from_ledger: what was at the path, whether
\* an exception left the call, the store as it was when the call was made,
\* whether the call was the first one on the manager, and, when the path is
\* the one that the process before this one saved its store to, that store
CompletedLoadLedger(file, out, d, ord) ==
    [op |-> "load_from_ledger", ret |-> None, file |-> file,
     found |-> out.found, raised |-> out.raised,
     before |-> [citations |-> d, order |-> ord],
     first |-> (last.op = "__init__"),
     roundtrip |-> ("ledger" \in DOMAIN last /\ file = last.ledger),
     saved |-> IF "ledger" \in DOMAIN last /\ file = last.ledger
               THEN last.saved ELSE [citations |-> EmptyDict, order |-> << >>]]

\* a caller adds a record, under a new citekey or under a citekey of the store
AddStoreCitation ==
    \E k \in NewKeys(citations, MaxStoreRecords) \cup DOMAIN citations :
        \E citation \in StoreInputs(k) : add_citation(citation)

\* the process ends after save_to_ledger, and a later process constructs its
\* CitationManager: the ledger is still in the file system
NewManager ==
    /\ pc = "idle"
    /\ last.op = "save_to_ledger"
    /\ citations' = EmptyDict
    /\ order' = << >>
    /\ last' = [op |-> "__init__", ret |-> None, ledger |-> LedgerFile(last.file),
                saved |-> last.before]
    /\ UNCHANGED <<max_retries, pc, va, vc, vu>>

\* the paths that a caller may hand to load_from_ledger: one without a file,
\* the ledgers of earlier runs, the ledger of the process before this one
LedgerPaths ==
    {NoFile} \cup {LedgerFile(doc) : doc \in EarlierLedgers}
    \cup (IF "ledger" \in DOMAIN last THEN {last.ledger} ELSE {})

\* a caller runs CitationManager.load_from_ledger
LoadFromLedger ==
    /\ pc = "idle"
    /\ \E file \in LedgerPaths :
         \E out \in {load_from_ledger(citations, order, file)} :
            /\ citations' = out.citations
            /\ order' = out.order
            /\ last' = CompletedLoadLedger(file, out, citations, order)
    /\ UNCHANGED <<max_retries, pc, va, vc, vu>>

NextStore ==
    \/ AddStoreCitation
    \/ LoadFromLedger
    \/ SaveToLedger
    \/ NewManager
    \/ DeduplicateCitations
    \/ VerifyStoredCitation
    \/ CheckAdsUrl
    \/ CheckDoi
    \/ HeadAttempt
    \/ FinishVerifyCitation
    \/ VerifyAllCitations
    \/ VerifyAllNext
    \/ RateLimitSleep

SpecStore == InitStore /\ [][NextStore]_vars

----------------------------------------------------------------------------
(* Runs of the verification engine over a filled store *)

\* the manager of these runs
InitVerify ==
    /\ max_retries \in 0..MaxVerifyRetries
    /\ citations = EmptyDict
    /\ order = << >>
    /\ pc = "idle"
    /\ va = NoVa
    /\ vc = NoVc
    /\ vu = NoVu
    /\ last = NoCall

\* a record as an earlier run has left it in the ledger: both statuses are 404
\* and last_verified is not set
Probed404(citation) ==
    [citation EXCEPT !.http_status_ads = 404, !.http_status_doi = 404]

\* the records that a caller of these runs may build under citekey k: under the
\* first citekey a record with an ADS URL, a DOI and another publisher URL;
\* under the second a record with an ADS bibcode and a publisher URL but
\* neither ADS URL nor DOI, or a record with a DOI only; under any other a
\* record with an ADS URL only
VerifyAllInputs(k) ==
    IF k = K1
    THEN { Probed404(Citation(k, <<"A", "b">>, TheAuthors, 1977, J1, B1, D1, X1, U1, P1, T1)) }
    ELSE IF k = K2
    THEN { Probed404(Citation(k, <<"A", "b">>, TheAuthors, 1978, None, B1, None, None, None, P1, << >>)),
           Citation(k, <<"A", "b">>, TheAuthors, 1978, None, None, D1, None, None, None, << >>) }
    ELSE { Citation(k, <<"A", "c">>, TheAuthors, 1978, None, None, None, None, U1, None, << >>) }

\* a caller adds a record under the next citekey; these runs fill the store
\* first and verify it afterwards
AddVerifyAllCitation ==
    /\ last.op \in {"__init__", "add_citation"}
    /\ \E k \in NewKeys(citations, MaxVerifyRecords) :
           \E citation \in VerifyAllInputs(k) : add_citation(citation)

NextVerify ==
    \/ AddVerifyAllCitation
    \/ VerifyStoredCitation
    \/ CheckAdsUrl
    \/ CheckDoi
    \/ HeadAttempt
    \/ BackoffSleep
    \/ FinishVerifyCitation
    \/ VerifyAllCitations
    \/ VerifyAllNext
    \/ RateLimitSleep
    \/ GetVerificationReport

SpecVerify == InitVerify /\ [][NextVerify]_vars

\* verify_all_citations alone on the filled store
NextVerifyAll ==
    \/ AddVerifyAllCitation
    \/ VerifyAllCitations
    \/ VerifyAllNext
    \/ CheckAdsUrl
    \/ CheckDoi
    \/ HeadAttempt
    \/ BackoffSleep
    \/ FinishVerifyCitation
    \/ RateLimitSleep

\* every HEAD attempt returns or fails within its timeout and every sleep
\* ends, so a call in progress takes its next step (each step moves pc)
SpecVerifyAll ==
    /\ InitVerify
    /\ [][NextVerifyAll]_vars
    /\ WF_pc(VerifyAllNext)
    /\ WF_pc(CheckAdsUrl)
    /\ WF_pc(CheckDoi)
    /\ WF_pc(HeadAttempt)
    /\ WF_pc(BackoffSleep)
    /\ WF_pc(FinishVerifyCitation)
    /\ WF_pc(RateLimitSleep)

----------------------------------------------------------------------------
(* Properties of the verification engine *)

\* every HEAD attempt of the call of verify_url raised
AllFailed(outcomes) ==
    \A i \in 1..Len(outcomes) : outcomes[i].kind = "RequestException"

\* verify_url has just returned to verify_citation
UrlReturned == vu.done /\ pc \in {"vc_doi", "vc_end"}

\* verify_citation has just returned, to verify_all_citations or to the caller,
\* and the final frame of that call
CitationReturned == pc = "va_sleep" \/ (pc = "idle" /\ last.op = "verify_citation")
ReturnedFrame == IF pc = "va_sleep" THEN vc ELSE last.call

\* C1: a call of verify_url makes at most max_retries HEAD attempts, every
\* failed attempt uses up one iteration of the loop, and a call whose attempts
\* all raised returns (False, 0) after exactly max_retries attempts.
C1_BoundedRetries ==
    /\ Len(vu.outcomes) <= max_retries
    /\ vu.active =>
           Len(vu.outcomes) = vu.attempt + (IF pc = "vu_sleep" THEN 1 ELSE 0)
    /\ (vu.done /\ AllFailed(vu.outcomes)) =>
           /\ vu.ret = <<FALSE, 0>>
           /\ Len(vu.outcomes) = max_retries

\* a call has returned after three attempts that all raised
C1_Witness ==
    /\ UrlReturned
    /\ Len(vu.outcomes) = 3
    /\ AllFailed(vu.outcomes)
    /\ vu.ret = <<FALSE, 0>>

\* C2: a success response at attempt k ends the call of verify_url: it is the
\* last attempt, the k - 1 attempts before it raised and were each followed by
\* one backoff sleep, and the call has returned (True, 200).
C2_ReturnsOnFirstSuccess ==
    \A k \in 1..Len(vu.outcomes) :
        vu.outcomes[k] = [kind |-> "response", status |-> 200] =>
            /\ k = Len(vu.outcomes)
            /\ \A i \in 1..(k - 1) : vu.outcomes[i].kind = "RequestException"
            /\ vu.done /\ ~vu.active
            /\ pc \notin {"vu_loop", "vu_sleep"}
            /\ vu.ret = <<TRUE, 200>>
            /\ vu.sleeps = k - 1

\* a call with retries left has returned on a success that followed a failure
C2_Witness ==
    /\ UrlReturned
    /\ Len(vu.outcomes) = 2
    /\ max_retries = 3
    /\ vu.outcomes[1].kind = "RequestException"
    /\ vu.outcomes[2] = [kind |-> "response", status |-> 200]
    /\ vu.ret = <<TRUE, 200>>

\* C3: verify_url reports a live URL only for a response with status 200; a
\* response with status s makes it return (s = 200, s); and a response is
\* never followed by another attempt, only a transport failure is.
C3_LiveOnlyOnSuccessStatus ==
    /\ (vu.done /\ vu.ret[1]) =>
           /\ vu.outcomes # << >>
           /\ vu.outcomes[Len(vu.outcomes)] = [kind |-> "response", status |-> 200]
    /\ \A k \in 1..Len(vu.outcomes) :
           vu.outcomes[k].kind = "response" =>
               /\ k = Len(vu.outcomes)
               /\ vu.done
               /\ vu.ret = <<vu.outcomes[k].status = 200, vu.outcomes[k].status>>
    /\ \A k \in 1..(Len(vu.outcomes) - 1) : vu.outcomes[k].kind = "RequestException"

\* a call has returned (False, 404) on a response to its first attempt although
\* retries were left
C3_Witness ==
    /\ UrlReturned
    /\ max_retries >= 2
    /\ vu.outcomes = <<[kind |-> "response", status |-> 404]>>
    /\ vu.ret = <<FALSE, 404>>

\* "https://doi.org/"
ResolverPrefix == <<"h", "t", "t", "p", "s", ":", "/", "/", "d", "o", "i", ".", "o", "r", "g", "/">>

\* C4: when verify_citation has returned for a record of the store whose doi is
\* set, the publisher_url of the record is "https://doi.org/" followed by the doi.
C4_PublisherUrlIsResolverUrl ==
    (CitationReturned /\ ReturnedFrame.found) =>
        LET citation == citations[ReturnedFrame.key] IN
        (citation.doi # None /\ citation.doi # << >>) =>
            citation.publisher_url = ResolverPrefix \o citation.doi

\* the call has returned for a record built with another publisher_url, after
\* a DOI probe that got no response
C4_Witness ==
    /\ CitationReturned
    /\ ReturnedFrame.found
    /\ LET citation == citations[ReturnedFrame.key] IN
       /\ citation.doi = D1
       /\ citation.ads_url = U1
       /\ citation.http_status_doi = 0
       /\ ~ReturnedFrame.ret.doi_url_valid
       /\ citation.publisher_url = ResolverPrefix \o D1

\* C5: when verify_citation has returned for a record of the store, the
\* last_verified of the record is set.
C5_LastVerifiedAlwaysSet ==
    (CitationReturned /\ ReturnedFrame.found) =>
        LET citation == citations[ReturnedFrame.key] IN
        citation.last_verified # None /\ citation.last_verified # << >>

\* the call has returned for a record with neither ads_url nor doi
C5_Witness ==
    /\ CitationReturned
    /\ ReturnedFrame.found
    /\ LET citation == citations[ReturnedFrame.key] IN
       /\ citation.ads_url = None
       /\ citation.doi = None
       /\ citation.http_status_ads = NoneInt
       /\ citation.http_status_doi = NoneInt
       /\ citation.last_verified \in Timestamps

\* the citekey passed to the verify_citation that was entered or has returned
CalledKey == IF pc = "idle" THEN last.call.key ELSE vc.key

\* C6: a call of verify_citation with a citekey that is not in the store
\* returns {"error": "Citation not found"} in the same step: no exception, no
\* call of verify_url, and the store and its records are as before.
C6_NotFoundIsAReport ==
    [][(VerifyCitation /\ CalledKey' \notin DOMAIN citations) =>
          /\ pc' = "idle"
          /\ last'.op = "verify_citation"
          /\ last'.ret = [error |-> "Citation not found"]
          /\ citations' = citations
          /\ order' = order
          /\ vu' = vu]_vars

\* the call has returned the report for a citekey missing from a store that
\* holds records
C6_Witness ==
    /\ pc = "idle"
    /\ last.op = "verify_citation"
    /\ ~last.call.found
    /\ last.call.key \notin DOMAIN citations
    /\ Len(order) = 2

\* the status and the flag that verify_citation has recorded for the probe
\* that has just returned
RecordedStatus ==
    IF vu.which = "ads" THEN citations[vc.key].http_status_ads
    ELSE citations[vc.key].http_status_doi
RecordedFlag ==
    IF vu.which = "ads" THEN vc.results.ads_url_valid ELSE vc.results.doi_url_valid

\* C7: no transport failure leaves verify_url; a probe whose attempts all
\* raised is recorded with status 0 and a false validity flag, which the
\* report of verify_citation carries; and the map that verify_all_citations
\* returns has a report for every record of the store.
C7_FailuresAreAbsorbed ==
    /\ pc # "raised"
    /\ (UrlReturned /\ AllFailed(vu.outcomes)) =>
           RecordedStatus = 0 /\ ~RecordedFlag
    /\ (CitationReturned /\ ReturnedFrame.found) =>
           LET citation == citations[ReturnedFrame.key] IN
           /\ citation.http_status_ads = 0 => ~ReturnedFrame.ret.ads_url_valid
           /\ citation.http_status_doi = 0 => ~ReturnedFrame.ret.doi_url_valid
    /\ (pc = "idle" /\ last.op = "verify_all_citations") =>
           /\ DOMAIN last.ret = DOMAIN citations
           /\ \A k \in DOMAIN citations : "error" \notin DOMAIN last.ret[k]

\* verify_all_citations has returned for two records: every attempt for the
\* first record failed, and the second record was verified after it
C7_Witness ==
    /\ pc = "idle"
    /\ last.op = "verify_all_citations"
    /\ Len(order) = 2
    /\ max_retries >= 2
    /\ citations[order[1]].http_status_ads = 0
    /\ citations[order[1]].http_status_doi = 0
    /\ citations[order[2]].http_status_doi = 200
    /\ citations[order[2]].last_verified \in Timestamps
    /\ last.ret[order[2]].doi_url_valid

----------------------------------------------------------------------------
(* Properties of the deduplication engine *)

\* the last completed call is deduplicate_citations
AfterDedup == pc = "idle" /\ last.op = "deduplicate_citations"

\* the completeness score as the specification states it
WeightedScore(citation) ==
    LET Weight(f, w) == IF citation[f] # None /\ citation[f] # <<>> THEN w ELSE 0
    IN  Weight("ads_bibcode", 3) + Weight("doi", 2) + Weight("arxiv_id", 1)
        + Weight("journal", 1) + Weight("bibtex_entry", 2)

\* the equality keys of the records of a dict, the keys of the dict whose
\* record has a given equality key, and the greatest score among these
KeysOf(d) == {EqualityKey(d[k]) : k \in DOMAIN d}
Group(d, key) == {k \in DOMAIN d : EqualityKey(d[k]) = key}
BestScore(d, key) ==
    CHOOSE m \in {WeightedScore(d[k]) : k \in Group(d, key)} :
        \A k \in Group(d, key) : WeightedScore(d[k]) <= m

\* C8: deduplicate_citations called again immediately after a call of
\* deduplicate_citations returns an empty list and leaves the store as it was.
C8_DedupIdempotent ==
    (AfterDedup /\ last.again)
        => /\ last.ret = << >>
           /\ citations = last.before.citations
           /\ order = last.before.order

\* a second call in a row has returned, and the first call had removed records
C8_Witness ==
    /\ AfterDedup
    /\ last.again
    /\ last.first_ret # << >>
    /\ order # << >>

\* C9: after deduplicate_citations every equality key of the store before the
\* call is the key of exactly one remaining record, and the score of that
\* record is the greatest score of the records that shared the key.
C9_OneBestSurvivorPerKey ==
    AfterDedup =>
        \A key \in KeysOf(last.before.citations) :
            /\ Cardinality(Group(citations, key)) = 1
            /\ \A k \in Group(citations, key) :
                   WeightedScore(citations[k]) = BestScore(last.before.citations, key)

\* three records shared one key, the scores 5 and 3 occurred among them, and
\* the call has removed two of them and kept a record of score 5
C9_Witness ==
    /\ AfterDedup
    /\ Len(last.before.order) = 3
    /\ Cardinality(KeysOf(last.before.citations)) = 1
    /\ \E k \in DOMAIN last.before.citations :
           WeightedScore(last.before.citations[k]) = 3
    /\ Len(last.ret) = 2
    /\ \E k \in DOMAIN citations : WeightedScore(citations[k]) = 5

\* the position of key k in the key order ord
Position(ord, k) == CHOOSE i \in 1..Len(ord) : ord[i] = k

\* the keys of the records of greatest score among those with equality key key
BestOf(d, key) == {k \in Group(d, key) : WeightedScore(d[k]) = BestScore(d, key)}

\* C10: of the records that share an equality key, the survivor is the one of
\* greatest score that comes first in store iteration order.
C10_TieKeepsEarlier ==
    AfterDedup =>
        \A key \in KeysOf(last.before.citations) :
            \A k \in Group(citations, key) :
                /\ k \in BestOf(last.before.citations, key)
                /\ \A other \in BestOf(last.before.citations, key) :
                       Position(last.before.order, k) <= Position(last.before.order, other)

\* two records of the same key tied at the greatest score with a record of
\* smaller score before them; the earlier of the two has survived
C10_Witness ==
    /\ AfterDedup
    /\ Len(last.before.order) = 3
    /\ \E key \in KeysOf(last.before.citations) :
           /\ Cardinality(Group(last.before.citations, key)) = 3
           /\ Cardinality(BestOf(last.before.citations, key)) = 2
           /\ last.before.order[1] \notin BestOf(last.before.citations, key)
           /\ order = <<last.before.order[2]>>

\* the title with every letter in lower case and without the whitespace before
\* its first and after its last other character, as the specification states it
NormalizedTitle(title) ==
    LET inner == {i \in 1..Len(title) : title[i] \notin {" ", "\t", "\n"}}
        lo == CHOOSE i \in inner : \A j \in inner : i <= j
        hi == CHOOSE i \in inner : \A j \in inner : j <= i
        folded == [i \in 1..Len(title) |->
                      CASE title[i] = "A" -> "a"
                        [] title[i] = "B" -> "b"
                        [] title[i] = "C" -> "c"
                        [] OTHER -> title[i]]
    IN  IF inner = {} THEN << >> ELSE SubSeq(folded, lo, hi)

\* two records are duplicates of each other
Duplicates(a, b) ==
    NormalizedTitle(a.title) = NormalizedTitle(b.title) /\ a.year = b.year

\* C11: deduplicate_citations never keeps two records whose normalized titles
\* and years are equal, and it keeps every record that has no such partner in
\* the store: records whose titles differ after normalization, or whose years
\* differ, are never collapsed.
C11_DuplicatesByTitleAndYear ==
    AfterDedup =>
        LET before == last.before.citations IN
        /\ \A k1, k2 \in DOMAIN before :
               (k1 # k2 /\ Duplicates(before[k1], before[k2]))
                   => ~(k1 \in DOMAIN citations /\ k2 \in DOMAIN citations)
        /\ \A k1 \in DOMAIN before :
               (\A k2 \in DOMAIN before \ {k1} : ~Duplicates(before[k1], before[k2]))
                   => k1 \in DOMAIN citations
        /\ Cardinality(DOMAIN citations) =
               Cardinality({<<NormalizedTitle(before[k].title), before[k].year>> :
                               k \in DOMAIN before})

\* titles that differ by case and surrounding whitespace only have collapsed
\* into one record, and the record with the same title and another year is kept
C11_Witness ==
    /\ AfterDedup
    /\ Len(last.before.order) = 3
    /\ LET before == last.before.citations IN
       /\ before[K1].title = <<"A", "b">> /\ before[K1].year = 1977
       /\ before[K2].title = <<" ", "a", "B", " ">> /\ before[K2].year = 1977
       /\ before[K3].title = <<"A", "b">> /\ before[K3].year = 1978
    /\ Len(order) = 2
    /\ K3 \in DOMAIN citations

\* the citekeys of a list
Range(seq) == {seq[i] : i \in 1..Len(seq)}

\* C12: deduplicate_citations completes without a KeyError; the store after it
\* is the store before it without the citekeys of the returned list, in the
\* same order and with every remaining record unchanged; the returned list
\* names each deleted citekey once; and its length is the number of records
\* before minus the number of distinct equality keys.
C12_DeletesExactlyWhatItReports ==
    AfterDedup =>
        LET before == last.before.citations IN
        /\ ~last.raised
        /\ DOMAIN citations = (DOMAIN before) \ Range(last.ret)
        /\ \A k \in DOMAIN citations : citations[k] = before[k]
        /\ order = SelectSeq(last.before.order, LAMBDA k : k \notin Range(last.ret))
        /\ Range(last.ret) \subseteq DOMAIN before
        /\ Cardinality(Range(last.ret)) = Len(last.ret)
        /\ Len(last.ret) = Len(last.before.order)
               - Cardinality({<<NormalizedTitle(before[k].title), before[k].year>> :
                                 k \in DOMAIN before})

\* a later record of greater score has replaced the record kept so far: the
\* list names the earlier citekey, and the later record is in the store as built
C12_Witness ==
    /\ AfterDedup
    /\ last.before.order = <<K1, K2, K3>>
    /\ last.ret = <<K1, K3>>
    /\ order = <<K2>>
    /\ citations[K2] = last.before.citations[K2]
    /\ citations[K2].ads_bibcode = B1
    /\ last.before.citations[K1].bibtex_entry = T1

----------------------------------------------------------------------------
(* Properties of the codec *)

\* an optional field has backing data
IsSet(v) == v # None /\ v # << >>

\* the invariants of a Record: citekey, title and author list are not empty,
\* the year is a four-digit year or the sentinel 0
ValidRecord(r) ==
    /\ r.citekey # << >> /\ r.title # << >> /\ r.authors # << >>
    /\ (r.year = 0 \/ r.year \in 1000..9999)

\* the generator has just returned; the parser has just returned for a text
\* that the generator had returned
Generated == pc = "idle" /\ last.op = "_generate_basic_bibtex"
Parsed == pc = "idle" /\ last.op = "create_citation_from_bibtex"
ParsedGenerated == Parsed /\ IsCitation(last.source)

\* C13: for every valid record without cached text, parsing the text generated
\* from it returns a record with the same citekey, title, authors and year.
C13_ParseOfGeneratedGivesRecordBack ==
    (ParsedGenerated /\ ValidRecord(last.source) /\ last.source.bibtex_entry = << >>) =>
        /\ IsCitation(last.ret)
        /\ last.ret.citekey = last.source.citekey
        /\ last.ret.title = last.source.title
        /\ last.ret.authors = last.source.authors
        /\ last.ret.year = last.source.year

\* C14: for every text t that the generator returned (for a valid record),
\* the parser returns a record whose bibtex_entry is t, and the block written
\* for that record is t.
C14_GenerateOfParsedIsTheText ==
    (ParsedGenerated /\ ValidRecord(last.source)) =>
        /\ IsCitation(last.ret)
        /\ last.ret.bibtex_entry = last.arg
        /\ BlockOf(last.ret) = last.arg

\* the lines of a text; the key and the value of a line "  key={value},"
LinesOf(text) == Split(text, <<"\n">>)
KeyOfLine(line) == SubSeq(line, 3, Find(line, <<"=">>) - 1)
ValueOfLine(line) == SubSeq(line, Find(line, <<"=">>) + 2, Len(line) - 2)
IsFieldLine(line, key, value) ==
    line = <<" ", " ">> \o key \o <<"=", "{">> \o value \o <<"}", ",">>

\* the keys of the optional fields in the order of the specification
OptionalKeys == << <<"j", "o", "u", "r", "n", "a", "l">>, <<"d", "o", "i">>, <<"e", "p", "r", "i", "n", "t">>, <<"a", "r", "c", "h", "i", "v", "e", "P", "r", "e", "f", "i", "x">>, <<"a", "d", "s", "u", "r", "l">>, <<"u", "r", "l">> >>

\* C15: the text generated for a record starts with "@article{" or "@misc{"
\* (article exactly when journal is set) and the citekey, then has the title,
\* author (names joined by " and ") and year lines, then lines of optional
\* fields only: each of them a field with backing data and with that data as
\* its value, never an empty value, in the order journal, doi, eprint,
\* archivePrefix, adsurl, url; journal, doi, eprint with archivePrefix, and
\* url are there exactly when journal, doi, arxiv_id, publisher_url are set.
C15_GeneratedFieldsInFixedOrder ==
    Generated =>
        LET r == last.arg
            lines == LinesOf(last.ret)
            n == Len(lines)
            optional == SubSeq(lines, 5, n - 1)
            keys == [i \in 1..Len(optional) |-> KeyOfLine(optional[i])]
            Rank(key) == CHOOSE i \in 1..6 : OptionalKeys[i] = key
            Emitted(i) == \E j \in 1..Len(keys) : keys[j] = OptionalKeys[i]
            Backing(i) == CASE i = 1 -> r.journal
                            [] i = 2 -> r.doi
                            [] i = 3 -> r.arxiv_id
                            [] i = 4 -> <<"a", "r", "X", "i", "v">>
                            [] i = 5 -> IF IsSet(r.ads_url) THEN r.ads_url
                                        ELSE <<"h", "t", "t", "p", "s", ":", "/", "/", "u", "i", ".", "a", "d", "s", "a", "b", "s", ".", "h", "a", "r", "v", "a", "r", "d", ".", "e", "d", "u", "/", "a", "b", "s", "/">> \o r.ads_bibcode
                            [] i = 6 -> r.publisher_url
        IN  /\ n >= 5
            /\ lines[1] = <<"@">> \o (IF IsSet(r.journal) THEN <<"a", "r", "t", "i", "c", "l", "e">> ELSE <<"m", "i", "s", "c">>)
                             \o <<"{">> \o r.citekey \o <<",">>
            /\ IsFieldLine(lines[2], <<"t", "i", "t", "l", "e">>, r.title)
            /\ IsFieldLine(lines[3], <<"a", "u", "t", "h", "o", "r">>, Join(r.authors, <<" ", "a", "n", "d", " ">>))
            /\ IsFieldLine(lines[4], <<"y", "e", "a", "r">>, StrOfInt(r.year))
            /\ lines[n] = <<"}">>
            /\ \A j \in 1..Len(keys) :
                   /\ keys[j] \in Range(OptionalKeys)
                   /\ ValueOfLine(optional[j]) # << >>
                   /\ IsFieldLine(optional[j], keys[j], Backing(Rank(keys[j])))
            /\ \A j, h \in 1..Len(keys) : j < h => Rank(keys[j]) < Rank(keys[h])
            /\ Emitted(1) <=> IsSet(r.journal)
            /\ Emitted(2) <=> IsSet(r.doi)
            /\ Emitted(3) <=> IsSet(r.arxiv_id)
            /\ Emitted(4) <=> IsSet(r.arxiv_id)
            /\ Emitted(5) => (IsSet(r.ads_url) \/ IsSet(r.ads_bibcode))
            /\ Emitted(6) <=> IsSet(r.publisher_url)

\* the text of a record with every optional field set has all six optional
\* lines, and it is an article
C15_Witness ==
    /\ Generated
    /\ last.arg.journal = J1 /\ last.arg.doi = D1 /\ last.arg.arxiv_id = X1
    /\ last.arg.ads_bibcode = B1 /\ last.arg.publisher_url = P1
    /\ Len(last.arg.authors) = 2
    /\ Len(LinesOf(last.ret)) = 11
    /\ SubSeq(last.ret, 1, 9) = <<"@", "a", "r", "t", "i", "c", "l", "e", "{">>

\* C16: the generated text has the adsurl line with ads_url when ads_url is
\* set, with the canonical URL of the bibcode when ads_url is absent and
\* ads_bibcode is set, and no adsurl line when both are absent.
C16_AdsurlForEveryLocator ==
    Generated =>
        LET r == last.arg
            lines == LinesOf(last.ret)
            HasLine(value) == \E i \in 1..Len(lines) : IsFieldLine(lines[i], <<"a", "d", "s", "u", "r", "l">>, value)
        IN  /\ IsSet(r.ads_url) => HasLine(r.ads_url)
            /\ (~IsSet(r.ads_url) /\ IsSet(r.ads_bibcode)) =>
                   HasLine(<<"h", "t", "t", "p", "s", ":", "/", "/", "u", "i", ".", "a", "d", "s", "a", "b", "s", ".", "h", "a", "r", "v", "a", "r", "d", ".", "e", "d", "u", "/", "a", "b", "s", "/">> \o r.ads_bibcode)
            /\ (~IsSet(r.ads_url) /\ ~IsSet(r.ads_bibcode)) =>
                   ~\E i \in 5..(Len(lines) - 1) : KeyOfLine(lines[i]) = <<"a", "d", "s", "u", "r", "l">>

\* the first line of the text that the parser looks at
FirstLine(text) == Head(Split(Strip(text), <<"\n">>))

\* a line starts with @<kind>{<citekey>, : an "@", word characters up to a
\* "{", and behind it characters other than a comma up to a comma
HeadPattern(line) ==
    \E b \in 3..Len(line) : \E c \in (b + 2)..Len(line) :
        /\ line[1] = "@"
        /\ \A i \in 2..(b - 1) : line[i] \in WordChars
        /\ line[b] = "{"
        /\ line[c] = ","
        /\ \A i \in (b + 1)..(c - 1) : line[i] # ","

\* the values of the year lines of a text, and the values that are integers
YearValues(text) ==
    {ValueOfLine(line) : line \in {l \in Range(LinesOf(text)) :
                                      Find(l, <<"=">>) > 0 /\ KeyOfLine(l) = <<"y", "e", "a", "r">>}}
IsInteger(value) == value # << >> /\ \A i \in 1..Len(value) : IsDigit(value[i])

\* what the parser returned, without the text it keeps
WithoutText(ret) == IF IsCitation(ret) THEN [ret EXCEPT !.bibtex_entry = << >>] ELSE ret

\* C20: the parser raises nothing; it returns no record when the first line
\* does not start with @<kind>{<citekey>, ; a record it returns has a citekey,
\* a title and an author list that are not empty and a year that is not 0; a
\* year value that is not an integer is passed over, so that a text without an
\* integer year value gives no record; and a line with an unknown key changes
\* nothing in the result.
C20_MalformedTextGivesNoRecord ==
    Parsed =>
        LET text == last.arg
            ret == last.ret
            integers == {v \in YearValues(text) : IsInteger(v)}
            unnoted == Join(SelectSeq(LinesOf(text), LAMBDA l : l # NoteLine), <<"\n">>)
        IN  /\ ret # ParseRaised
            /\ ~HeadPattern(FirstLine(text)) => ret = NoCitation
            /\ IsCitation(ret) =>
                   /\ ret.citekey # << >> /\ ret.title # << >> /\ ret.authors # << >>
                   /\ ret.year # 0
                   /\ ret.year \in {NatOfDigits(v) : v \in integers}
            /\ integers = {} => ret = NoCitation
            /\ WithoutText(ret) = WithoutText(create_citation_from_bibtex(unnoted))

\* a text with a citekey, a line with an unknown key, a title, authors and the
\* year value "x" has given no record
C20_Witness ==
    /\ Parsed
    /\ /\ last.arg = Join(<< <<"@", "m", "i", "s", "c", "{", "k", "1", ",">>, NoteLine, <<" ", " ", "t", "i", "t", "l", "e", "=", "{", "A", "b", "}", ",">>,
                                <<" ", " ", "a", "u", "t", "h", "o", "r", "=", "{", "A", " ", "a", "n", "d", " ", "B", " ", "c", "}", ",">>, <<" ", " ", "y", "e", "a", "r", "=", "{", "x", "}", ",">>,
                                <<"}">> >>, <<"\n">>)
          /\ last.ret = NoCitation

----------------------------------------------------------------------------
(* Properties of the output of the store *)

\* generate_bibtex has just returned
AfterGenerate == pc = "idle" /\ last.op = "generate_bibtex"

\* C17: for every record with a non-empty bibtex_entry generate_bibtex writes
\* one text, the bibtex_entry followed by "\n\n", whatever the fields of the
\* record are by now.
C17_CachedTextIsWrittenVerbatim ==
    AfterGenerate =>
        LET d == last.before.citations IN
        /\ \A i \in 1..Len(last.writes) :
               d[last.writes[i].citekey].bibtex_entry # << >> =>
                   last.writes[i].text =
                       d[last.writes[i].citekey].bibtex_entry \o <<"\n", "\n">>
        /\ \A k \in DOMAIN d :
               d[k].bibtex_entry # << >> =>
                   \E i \in 1..Len(last.writes) : last.writes[i].citekey = k

\* the file was written after verify_citation had replaced the publisher_url
\* of a record that carries a text: the text is written as it was, and it is
\* not the text that the fields of the record give
C17_Witness ==
    /\ AfterGenerate
    /\ \E i \in 1..Len(last.writes) :
           LET citation == citations[last.writes[i].citekey] IN
           /\ citation.bibtex_entry = CachedText
           /\ citation.publisher_url = ResolverPrefix \o D1
           /\ citation.last_verified \in Timestamps
           /\ last.writes[i].text = CachedText \o <<"\n", "\n">>
           /\ _generate_basic_bibtex(citation) # CachedText

\* a comes before b in the order of str: at the first index where they differ
\* a has ended or has the character of the smaller code point
Precedes(a, b) ==
    \E i \in 1..Len(b) :
        /\ \A j \in 1..(i - 1) : j <= Len(a) /\ a[j] = b[j]
        /\ i = Len(a) + 1 \/ (i <= Len(a) /\ CodePoint(a[i]) < CodePoint(b[i]))

\* C18: generate_bibtex writes one text per record of the store, by year
\* ascending and, within a year, by citekey ascending; each text ends with a
\* blank line, and the file is these texts one after the other.
C18_OneBlockPerRecordSorted ==
    AfterGenerate =>
        LET d == last.before.citations
            w == last.writes
        IN  /\ Len(w) = Cardinality(DOMAIN d)
            /\ {w[i].citekey : i \in 1..Len(w)} = DOMAIN d
            /\ \A i, j \in 1..Len(w) :
                   i < j =>
                       LET a == d[w[i].citekey]
                           b == d[w[j].citekey]
                       IN  a.year < b.year
                           \/ (a.year = b.year /\ Precedes(a.citekey, b.citekey))
            /\ \A i \in 1..Len(w) :
                   /\ Len(w[i].text) > 2
                   /\ SubSeq(w[i].text, Len(w[i].text) - 1, Len(w[i].text)) = <<"\n", "\n">>
            /\ last.file = Join([i \in 1..Len(w) |-> w[i].text], << >>)

\* two records of one year were added as k2 and then k10, and the file has k10
\* first
C18_Witness ==
    /\ AfterGenerate
    /\ last.before.order = << <<"k", "2">>, <<"k", "1", "0">> >>
    /\ citations[<<"k", "2">>].year = citations[<<"k", "1", "0">>].year
    /\ Len(last.writes) = 2
    /\ last.writes[1].citekey = <<"k", "1", "0">>
    /\ last.writes[2].citekey = <<"k", "2">>

\* C19: generate_bibtex, save_to_ledger and get_verification_report leave the
\* store as it was, and deduplicate_citations leaves every record that it
\* keeps as it was; a record without bibtex_entry has none after
\* generate_bibtex.
C19_OnlyVerificationChangesRecords ==
    /\ (pc = "idle" /\ last.op \in {"generate_bibtex", "save_to_ledger",
                                    "get_verification_report"}) =>
           /\ citations = last.before.citations
           /\ order = last.before.order
    /\ (pc = "idle" /\ last.op = "deduplicate_citations") =>
           \A k \in DOMAIN citations :
               k \in DOMAIN last.before.citations /\ citations[k] = last.before.citations[k]

\* the file has the generated text of a record with a DOI and without
\* bibtex_entry, and the record is still without bibtex_entry
C19_Witness ==
    /\ AfterGenerate
    /\ \E i \in 1..Len(last.writes) :
           LET citation == citations[last.writes[i].citekey] IN
           /\ citation.bibtex_entry = << >>
           /\ citation.doi = D1
           /\ last.writes[i].text = _generate_basic_bibtex(citation) \o <<"\n", "\n">>

----------------------------------------------------------------------------
(* Properties of the bulk load *)

AfterLoad == pc = "idle" /\ last.op = "_load_existing_bibliography"

\* what the parser makes of block i of the file, taken alone
ParsedBlock(i) == create_citation_from_bibtex(last.blocks[i])
BlockParses(i) == IsCitation(ParsedBlock(i))

\* the blocks of the file that parse, in file order
ParsingBlocks == SelectSeq([i \in 1..Len(last.blocks) |-> i], BlockParses)

\* no later block that parses has the citekey of block i
LastOfItsKey(i) ==
    \A j \in (i + 1)..Len(last.blocks) :
        BlockParses(j) => ParsedBlock(j).citekey # ParsedBlock(i).citekey

\* C21: bulk loading makes partial progress. After the load of a file of entry
\* blocks (each is followed by a blank line) there was one
\* add_citation per block that parses, in file order, whatever the blocks
\* before and after it are; the store holds exactly the citekeys of these
\* blocks, each with the record of the last block of that citekey (its fields
\* as parsed, its text the block up to surrounding whitespace); a block that
\* does not parse adds nothing; and no exception was raised, so none escaped.
C21_BulkLoadMakesPartialProgress ==
    AfterLoad =>
        /\ ~last.caught
        /\ last.added = [n \in 1..Len(ParsingBlocks) |-> ParsedBlock(ParsingBlocks[n]).citekey]
        /\ DOMAIN citations =
               {ParsedBlock(i).citekey : i \in {j \in 1..Len(last.blocks) : BlockParses(j)}}
        /\ \A i \in 1..Len(last.blocks) :
               BlockParses(i) /\ LastOfItsKey(i) =>
                   LET stored == citations[ParsedBlock(i).citekey] IN
                   /\ WithoutText(stored) = WithoutText(ParsedBlock(i))
                   /\ Strip(stored.bibtex_entry) = Strip(last.blocks[i])

----------------------------------------------------------------------------
(* Properties of the store and its ledger *)

AfterLedgerLoad == pc = "idle" /\ last.op = "load_from_ledger"

\* a step of add_citation
AddStep == pc = "idle" /\ last'.op = "add_citation"

\* the record dicts of the ledger that was loaded, and the last of them that
\* has citekey k
LoadedDicts == JsonLoad(last.file.doc).value
LoadedKeys == {LoadedDicts[i].citekey : i \in 1..Len(LoadedDicts)}
LastLoaded(k) ==
    LET at == {i \in 1..Len(LoadedDicts) : LoadedDicts[i].citekey = k}
    IN  from_dict(LoadedDicts[CHOOSE i \in at : \A j \in at : j <= i])

\* C22: the store is keyed by citekey. In every state each entry of the store is
\* keyed by the citekey of its record and the iteration order has every key
\* once, so no two records share a citekey; a step of add_citation puts a
\* record of the caller under its citekey, and when the citekey was in the
\* store the record under it is replaced, the number of records and the
\* iteration order stay, and the other records are untouched; after a
\* load_from_ledger that returned, every citekey of the file holds the last
\* record that the file has for it, the other records are untouched, and the
\* number of records grew by the citekeys that were new only.
C22_StoreIsKeyedByCitekey ==
    /\ [](/\ \A k \in DOMAIN citations : citations[k].citekey = k
          /\ Len(order) = Cardinality(DOMAIN citations)
          /\ Range(order) = DOMAIN citations)
    /\ [][AddStep =>
            \E k \in DOMAIN citations' :
                /\ citations'[k] \in StoreInputs(k)
                /\ DOMAIN citations' = (DOMAIN citations) \cup {k}
                /\ \A j \in (DOMAIN citations) \ {k} : citations'[j] = citations[j]
                /\ k \in DOMAIN citations =>
                       /\ Cardinality(DOMAIN citations') = Cardinality(DOMAIN citations)
                       /\ order' = order
                /\ k \notin DOMAIN citations => order' = Append(order, k)]_vars
    /\ [](AfterLedgerLoad /\ last.found /\ ~last.raised =>
            /\ DOMAIN citations = (DOMAIN last.before.citations) \cup LoadedKeys
            /\ \A k \in LoadedKeys : citations[k] = LastLoaded(k)
            /\ \A k \in (DOMAIN citations) \ LoadedKeys : citations[k] = last.before.citations[k]
            /\ SubSeq(order, 1, Len(last.before.order)) = last.before.order)

\* a ledger was loaded into a store of two records: the record under a
\* citekey of the file was replaced and the store still has two records
C22_Witness ==
    /\ AfterLedgerLoad /\ last.found /\ ~last.raised
    /\ Cardinality(DOMAIN last.before.citations) = 2
    /\ Cardinality(DOMAIN citations) = 2
    /\ \E k \in DOMAIN citations : citations[k] # last.before.citations[k]

\* C23: load_from_ledger on a path without a file returns normally and changes
\* nothing in the store; when it was the first call on the manager the store is
\* empty after it.
C23_MissingLedgerIsNoError ==
    AfterLedgerLoad /\ ~last.file.exists =>
        /\ ~last.raised
        /\ citations = last.before.citations
        /\ order = last.before.order
        /\ last.first => citations = EmptyDict /\ order = << >>

\* the first call on a manager was a load_from_ledger on a path without a file
C23_Witness ==
    /\ AfterLedgerLoad /\ ~last.file.exists /\ ~last.found
    /\ last.first
    /\ citations = EmptyDict

\* C24: the ledger is a full-fidelity round trip. When a new manager has loaded
\* the ledger that save_to_ledger wrote, the load returned normally and the
\* store has the citekeys of the saved store in the same iteration order,
\* each with a record equal to the saved one in every field.
C24_LedgerRoundTrip ==
    AfterLedgerLoad /\ last.roundtrip =>
        /\ ~last.raised
        /\ order = last.saved.order
        /\ DOMAIN citations = DOMAIN last.saved.citations
        /\ \A k \in DOMAIN citations : \A f \in FieldNames :
               citations[k][f] = last.saved.citations[k][f]

\* a new manager has loaded a saved store of two records: one was verified and
\* has a DOI status, the other has a cached text of several lines, a note, a
\* flag set, and no journal
C24_Witness ==
    /\ AfterLedgerLoad /\ last.roundtrip
    /\ Len(order) = 2
    /\ \E k \in DOMAIN citations :
           /\ citations[k].last_verified # None
           /\ citations[k].http_status_doi = 0
           /\ citations[k].publisher_url = DoiUrl(D1)
    /\ \E k \in DOMAIN citations :
           /\ citations[k].bibtex_entry = StoreText
           /\ citations[k].crossref_match
           /\ citations[k].journal = None
           /\ citations[k].http_status_ads = NoneInt

----------------------------------------------------------------------------
(* Properties of the verification engine over a filled store *)

VerifyAllReturned == pc = "idle" /\ last.op = "verify_all_citations"

\* a call of verify_citation is in progress
InCheck == pc \in {"vc_ads", "vu_loop", "vu_sleep", "vc_doi", "vc_end"}

\* the step enters verify_citation from the loop of verify_all_citations
EntersCheckFromLoop == pc = "va_loop" /\ pc' = "vc_ads"

\* the records whose check has returned in the call of verify_all_citations
Checked == DOMAIN va.results

\* C25: verify_all_citations checks every record once, in iteration order.
\* While the call runs, the records checked so far are the first ones of the
\* iteration order and each has last_verified set, the record in check is the
\* next one, every check that starts is for the next key, which was not checked
\* before, the loop index never goes back, and no record is added or removed;
\* the call returns after the last key, and then the map has exactly the
\* citekeys of the store and every record has last_verified set.
C25_VerifyAllChecksEveryRecordOnce ==
    /\ [](va.active =>
            /\ va.idx \in 1..(Len(order) + 1)
            /\ Checked = {order[i] : i \in 1..(va.idx - 1)}
                           \cup (IF pc = "va_sleep" THEN {order[va.idx]} ELSE {})
            /\ InCheck => vc.caller = "verify_all_citations" /\ vc.key = order[va.idx]
            /\ \A k \in Checked : Truthy(citations[k].last_verified))
    /\ [][va.active =>
            /\ order' = order
            /\ DOMAIN citations' = DOMAIN citations
            /\ va'.active => /\ va'.idx \in {va.idx, va.idx + 1}
                             /\ Checked \subseteq DOMAIN va'.results
            /\ EntersCheckFromLoop => vc'.key = order[va.idx] /\ vc'.key \notin Checked
            /\ ~va'.active => va.idx = Len(order) + 1 /\ last'.ret = va.results]_vars
    /\ [](VerifyAllReturned =>
            /\ DOMAIN last.ret = DOMAIN citations
            /\ \A k \in DOMAIN citations : Truthy(citations[k].last_verified))

\* the call has returned for a store of two records: both were checked, the
\* first got a response to its ADS probe
C25_Witness ==
    /\ VerifyAllReturned
    /\ Len(order) = 2
    /\ DOMAIN last.ret = {K1, K2}
    /\ citations[K1].http_status_ads = 200
    /\ Truthy(citations[K1].last_verified) /\ Truthy(citations[K2].last_verified)

\* the counts of the report, taken from the records of the dict d
VerifiedCount(d) ==
    Cardinality({k \in DOMAIN d : d[k].last_verified # None /\ d[k].last_verified # << >>})
AdsLiveCount(d) == Cardinality({k \in DOMAIN d : d[k].http_status_ads = SuccessStatus})
DoiLiveCount(d) == Cardinality({k \in DOMAIN d : d[k].http_status_doi = SuccessStatus})

\* C26: get_verification_report returns the number of records, the number of
\* records with last_verified set and the numbers of records whose ADS and DOI
\* status is the success status; the percentage is verified * 100 / total, and 0
\* for the empty store; in every state the three counts of the report of the
\* store are at most its total; and when verify_all_citations has returned the
\* verified count of the report of the store equals the total.
C26_ReportCountsTheStore ==
    /\ LET report == get_verification_report(citations) IN
       /\ report.verified_count <= report.total_citations
       /\ report.ads_urls_valid <= report.total_citations
       /\ report.doi_urls_valid <= report.total_citations
       /\ VerifyAllReturned => report.verified_count = report.total_citations
    /\ (pc = "idle" /\ last.op = "get_verification_report") =>
           LET d == last.before.citations IN
           /\ last.ret.total_citations = Len(last.before.order)
           /\ last.ret.verified_count = VerifiedCount(d)
           /\ last.ret.ads_urls_valid = AdsLiveCount(d)
           /\ last.ret.doi_urls_valid = DoiLiveCount(d)
           /\ last.ret.verification_percentage =
                  IF d = EmptyDict THEN <<0, 1>>
                  ELSE <<VerifiedCount(d) * 100, Len(last.before.order)>>

\* the report of a store of two records: one is verified, its ADS status is
\* 200 and its DOI status is not, and the status 404 of the other record is
\* not counted
C26_Witness ==
    /\ pc = "idle" /\ last.op = "get_verification_report"
    /\ last.ret.total_citations = 2
    /\ last.ret.verified_count = 1
    /\ last.ret.ads_urls_valid = 1
    /\ last.ret.doi_urls_valid = 0
    /\ \E k \in DOMAIN citations : citations[k].http_status_ads = 404

\* C27: verify_citation records the outcome of each probe. When verify_url has
\* returned, its URL is the ads_url of the record, or "https://doi.org/"
\* followed by its doi, the status it returned is the http_status_ads, or the
\* http_status_doi, of the record and its boolean the ads_url_valid, or the
\* doi_url_valid, of the report, whatever the status was before; a probe
\* without response has stored 0; and when verify_citation has returned, the
\* flag of every probed URL tells whether the stored status is 200.
C27_ProbeOutcomesAreRecorded ==
    /\ UrlReturned =>
           /\ vu.url = (IF vu.which = "ads" THEN citations[vc.key].ads_url
                        ELSE ResolverPrefix \o citations[vc.key].doi)
           /\ RecordedStatus = vu.ret[2]
           /\ RecordedFlag = vu.ret[1]
           /\ AllFailed(vu.outcomes) => RecordedStatus = 0
    /\ (CitationReturned /\ ReturnedFrame.found) =>
           LET citation == citations[ReturnedFrame.key] IN
           /\ Truthy(citation.ads_url) =>
                  /\ citation.http_status_ads \in Statuses \cup {0}
                  /\ ReturnedFrame.ret.ads_url_valid = (citation.http_status_ads = 200)
           /\ Truthy(citation.doi) =>
                  /\ citation.http_status_doi \in Statuses \cup {0}
                  /\ ReturnedFrame.ret.doi_url_valid = (citation.http_status_doi = 200)

\* the ADS probe of a record whose statuses were both 404 has returned after
\* two attempts without response: the ADS status is 0 and the DOI status, not
\* probed yet, is still 404
C27_Witness ==
    /\ UrlReturned /\ pc = "vc_doi"
    /\ vu.which = "ads"
    /\ Len(vu.outcomes) = 2 /\ AllFailed(vu.outcomes)
    /\ citations[vc.key].http_status_ads = 0
    /\ citations[vc.key].http_status_doi = 404

\* the fields that verify_citation may write, and the key of the call that the
\* step belongs to
VerifiedFields == {"http_status_ads", "http_status_doi", "publisher_url", "last_verified"}
StepKey == IF InCheck THEN vc.key ELSE vc'.key

\* C28: verify_citation changes four fields of its record at most. In every
\* step of a call the key set and the order of the store and every other
\* record stay; the record of the call keeps every field but http_status_ads,
\* http_status_doi, publisher_url and last_verified; when its ads_url is not
\* set its http_status_ads stays and no ADS probe starts; when its doi is not
\* set its http_status_doi and publisher_url stay and no DOI probe starts.
C28_VerifyChangesFourFieldsAtMost ==
    [][(InCheck \/ InCheck') =>
          /\ DOMAIN citations' = DOMAIN citations
          /\ order' = order
          /\ \A k \in (DOMAIN citations) \ {StepKey} : citations'[k] = citations[k]
          /\ LET old == citations[StepKey]
                 new == citations'[StepKey]
             IN  /\ \A f \in FieldNames \ VerifiedFields : new[f] = old[f]
                 /\ ~Truthy(old.ads_url) =>
                        /\ new.http_status_ads = old.http_status_ads
                        /\ ~(InCheck' /\ vu'.active /\ vu'.which = "ads")
                 /\ ~Truthy(old.doi) =>
                        /\ new.http_status_doi = old.http_status_doi
                        /\ new.publisher_url = old.publisher_url
                        /\ ~(InCheck' /\ vu'.active /\ vu'.which = "doi")]_vars

\* verify_citation has returned for a record with an ADS bibcode, without ADS
\* URL and DOI: its statuses and its publisher URL are what they were
C28_Witness ==
    /\ CitationReturned /\ ReturnedFrame.found
    /\ LET citation == citations[ReturnedFrame.key] IN
       /\ citation.ads_bibcode = B1
       /\ citation.ads_url = None /\ citation.doi = None
       /\ citation.http_status_ads = 404 /\ citation.http_status_doi = 404
       /\ citation.publisher_url = P1
       /\ Truthy(citation.last_verified)

\* C29: verification is sequential. A probe in progress belongs to the one
\* check in progress and a check in progress to the one position of the thread
\* of control; when the loop of verify_all_citations starts the check of a
\* record, no probe and no check is in progress, the checks of the records
\* before it have returned with last_verified set, and the record was not
\* checked in this call.
C29_VerificationIsSequential ==
    /\ [](/\ vu.active <=> pc \in {"vu_loop", "vu_sleep"}
          /\ vc.active <=> InCheck
          /\ vu.active => vc.active
          /\ pc \in {"va_loop", "va_sleep"} => va.active)
    /\ [][EntersCheckFromLoop =>
            /\ ~vu.active /\ ~vc.active
            /\ vc'.key \notin Checked
            /\ \A i \in 1..(va.idx - 1) :
                   /\ order[i] \in Checked
                   /\ Truthy(citations[order[i]].last_verified)
            /\ (va.idx > 1) => vc.done /\ vc.key = order[va.idx - 1]]_vars

\* the check of the second record is in a DOI probe after the check of the
\* first record has returned with both probes made
C29_Witness ==
    /\ va.active /\ va.idx = 2
    /\ pc = "vu_loop" /\ vu.which = "doi" /\ vc.key = K2
    /\ Checked = {K1}
    /\ citations[K1].http_status_ads = 0 /\ citations[K1].http_status_doi = 200

\* the stage of the check in progress: before the ADS probe, in it, before the
\* DOI probe, in it, after it
Stage ==
    CASE pc = "vc_ads" -> 1
      [] pc \in {"vu_loop", "vu_sleep"} /\ vu.which = "ads" -> 2
      [] pc = "vc_doi" -> 3
      [] pc \in {"vu_loop", "vu_sleep"} /\ vu.which = "doi" -> 4
      [] OTHER -> 5

\* C30: verify_all_citations terminates, with bounded attempts. A call in
\* progress returns; a call of verify_url never has more than max_retries
\* attempts; every call of verify_url starts with no attempt made, whatever
\* the call before it did; and a check has one ADS call and then one DOI call
\* at most (its stage never goes back and a call starts from the stage before
\* it only), so it makes 2 * max_retries attempts at most.
C30_VerifyAllTerminates ==
    /\ va.active ~> VerifyAllReturned
    /\ [](Len(vu.outcomes) <= max_retries /\ vu.sleeps <= max_retries)
    /\ [][(pc \notin {"vu_loop", "vu_sleep"} /\ pc' \in {"vu_loop", "vu_sleep"}) =>
            /\ pc \in {"vc_ads", "vc_doi"}
            /\ vu'.which = (IF pc = "vc_ads" THEN "ads" ELSE "doi")
            /\ vu'.attempt = 0 /\ vu'.outcomes = << >> /\ vu'.sleeps = 0]_vars
    /\ [][(InCheck /\ InCheck') => Stage' >= Stage]_vars

\* in one check the ADS call has used up its two attempts, and the DOI call
\* after it has made two attempts as well
C30_Witness ==
    /\ va.active /\ pc = "vc_end"
    /\ max_retries = 2
    /\ citations[vc.key].http_status_ads = 0
    /\ vu.done /\ vu.which = "doi" /\ Len(vu.outcomes) = 2

====
